---------------------------- MODULE Spec2Model ----------------------------
(***************************************************************************)
(* Verification model of the provider-validation pipeline of               *)
(* backend/app: the 3-dimensional trust score                              *)
(*     T = 100 * (w1*s1 + w2*s2 + w3*s3) * (1 - lambda)                    *)
(* (services/validation.py), the complaint cross-referencer and the judge  *)
(* stage of the record graph (agents/validation.py, graph.py).             *)
(*                                                                         *)
(* Number representation.  The code computes with Python floats; the       *)
(* model uses fixed-point integers:                                        *)
(*   - a score s1, s2, s3 is an integer number of 1/ScoreDen units,        *)
(*   - a check value and a weight are in tenths,                           *)
(*   - a lambda penalty is in hundredths,                                  *)
(*   - a trust or risk score is in tenths of a point (0 .. 1000).          *)
(***************************************************************************)
EXTENDS Integers, Sequences, FiniteSets, TLC

VARIABLES
    ts,                  \* the last compute_trust_score call: inputs and result
    cx,                  \* the last cross_reference_complaints call
    pc,                  \* position of validate_single_provider
    csv_row,             \* the submitted row being validated
    env,                 \* what the external services answered for this row
    nppes_result,        \* result of validate_nppes (D1)
    reachability_result, \* result of validate_reachability (D2)
    record,              \* the dict validate_single_provider returns
    state,               \* MainAgentState of the record graph (judge stage)
    dc,                  \* the last compute_decay_probability call
    ba,                  \* the last analyze_batch call
    impact,              \* the last compute_provider_impact call
    graph,               \* the module the job's orchestrator_graph comes from
    active,              \* nodes of the current superstep that have not run yet
    triggered,           \* nodes the current superstep has triggered so far
    contacted,           \* the communicator queued a message to the provider
    job_store,           \* job_store[job_id]
    handler,             \* the batch endpoint that is running
    file_rows,           \* the rows csv.DictReader read from the file
    outcomes,            \* per NPI, how analyze_provider answers in this run
    complaint_store,     \* core.state.complaint_store: NPI -> complaints on file
    idx,                 \* rows the batch loop has finished
    records,             \* the records list of the batch handler
    response             \* what the batch handler answered

vars == <<ts, cx, pc, csv_row, env, nppes_result, reachability_result, record, state, dc, ba, impact, graph, active, triggered, contacted, job_store, handler, file_rows, outcomes, complaint_store, idx, records, response>>

\* the variables of the components added after the pipeline and the judge
graph_vars == <<graph, active, triggered, contacted, job_store>>

loop_vars == <<handler, file_rows, outcomes, complaint_store, idx, records, response>>

other_components == <<dc, ba, impact, graph_vars, loop_vars>>

None == "None"

\* {} : a dict with no keys
EmptyDict == [keys |-> {}]

Min(a, b) == IF a <= b THEN a ELSE b
Max(a, b) == IF a >= b THEN a ELSE b

RECURSIVE SumSeq(_)
SumSeq(s) == IF s = <<>> THEN 0 ELSE Head(s) + SumSeq(Tail(s))

RECURSIVE Concat(_)
Concat(ss) == IF ss = <<>> THEN <<>> ELSE Head(ss) \o Concat(Tail(ss))

Take(s, n) == SubSeq(s, 1, Min(n, Len(s)))

(***************************************************************************)
(* Fixed-point resolution of the float scores: 1/2400 is fine enough to    *)
(* hold every mean of one to four check values exactly and to hold scores  *)
(* whose weighted sum rounds to 0.0.                                       *)
(***************************************************************************)
ScoreDen == 2400

\* sum(checks) / len(checks), checks in tenths, result in 1/ScoreDen units
Mean(checks) == (SumSeq(checks) * (ScoreDen \div 10)) \div Len(checks)

(***************************************************************************)
(*                       compute_trust_score                               *)
(***************************************************************************)
W1 == 4
W2 == 3
W3 == 3

\* The exact value of T in tenths is TrustNumerator / ScoreDen.
TrustNumerator(s1, s2, s3, lambda_penalty) ==
    (W1 * s1 + W2 * s2 + W3 * s3) * (100 - lambda_penalty)

(***************************************************************************)
(* round(x, 1) of the float x whose exact value is n / d tenths.  Python   *)
(* rounds the double it is given correctly, so away from a tie the result  *)
(* is the nearest tenth.  When the exact value lies on a tie the double    *)
(* the float arithmetic produced is a few ulps above or below it, and      *)
(* which one depends on the operands: both neighbours are possible.        *)
(***************************************************************************)
Round1(n, d) ==
    LET q == n \div d
        r == n % d
    IN  IF 2 * r < d THEN {q}
        ELSE IF 2 * r > d THEN {q + 1}
        ELSE {q, q + 1}

\* A mutation of compute_trust_score: the weights and the clamp are left out.
compute_trust_score_unweighted(s1, s2, s3, lambda_penalty) ==
    Round1(10 * (s1 + s2 + s3) * (100 - lambda_penalty), ScoreDen)

\* A mutation of compute_trust_score: the penalty factor is (1 + lambda).
compute_trust_score_plus(s1, s2, s3, lambda_penalty) ==
    Round1(Max(0, Min(1000 * ScoreDen,
                      (W1 * s1 + W2 * s2 + W3 * s3) * (100 + lambda_penalty))),
           ScoreDen)

\* The set of values round(max(0.0, min(100.0, T)), 1) can take, in tenths.
compute_trust_score(s1, s2, s3, lambda_penalty) ==
    Round1(Max(0, Min(1000 * ScoreDen,
                      TrustNumerator(s1, s2, s3, lambda_penalty))),
           ScoreDen)

\* lambda_penalty = min(lambda_penalty, 0.95)
LAMBDA_CAP == 95

(***************************************************************************)
(* Inputs of the trust-scorer specification: s1, s2, s3 over [0, 1] and    *)
(* lambda over [0, 0.95], with the smallest positive score of the          *)
(* resolution among them.                                                  *)
(***************************************************************************)
TrustGridN == 5
LambdaGridN == 5

ScoreGrid == {(k * ScoreDen) \div TrustGridN : k \in 0..TrustGridN} \cup {1}
LambdaGrid == {(k * LAMBDA_CAP) \div LambdaGridN : k \in 0..LambdaGridN}

NoCall == [called |-> FALSE]

(***************************************************************************)
(*                    Strings, findings and keywords                      *)
(*                                                                         *)
(* A finding is the record [mark, text]: mark is the marker the finding    *)
(* string starts with ("v" for the check mark, "x" for the cross, "!" for  *)
(* the warning sign, "" for none) and text is the message template that    *)
(* follows it, without the interpolated values.                            *)
(***************************************************************************)
Finding(mark, text) == [mark |-> mark, text |-> text]

\* verdict = "pass" if finding.startswith(check) else "fail" if
\* finding.startswith(cross) else "warn"
Verdict(finding) ==
    IF finding.mark = "v" THEN "pass"
    ELSE IF finding.mark = "x" THEN "fail"
    ELSE "warn"

\* s.upper() on the state codes and names of the model
Upper(s) ==
    CASE s = "tx" -> "TX"
      [] s = "John" -> "JOHN"
      [] s = "Smith" -> "SMITH"
      [] s = "Cardiology" -> "CARDIOLOGY"
      [] s = "Ortho" -> "ORTHO"
      [] s = "Orthopaedic Surgery" -> "ORTHOPAEDIC SURGERY"
      [] s = "Internal Medicine" -> "INTERNAL MEDICINE"
      [] s = "John Smith" -> "JOHN SMITH"
      [] s = "Jon Smythe" -> "JON SMYTHE"
      [] s = "Official Name" -> "OFFICIAL NAME"
      [] s = "None None" -> "NONE NONE"
      [] OTHER -> s

(***************************************************************************)
(* difflib.SequenceMatcher(None, a, b).ratio() in thousandths (rounded     *)
(* down) on the upper-cased strings of the model; equal strings give 1.0.  *)
(***************************************************************************)
SequenceMatcherRatio(a, b) ==
    CASE a = b -> 1000
      [] {a, b} = {"JOHN", "JON"} -> 857
      [] {a, b} = {"JOHN", "OFFICIAL"} -> 166
      [] {a, b} = {"SMITH", "SMYTHE"} -> 727
      [] {a, b} = {"SMITH", "NAME"} -> 222
      [] {a, b} = {"MD", "M.D."} -> 666
      [] {a, b} = {"MD", "NP"} -> 0
      [] {a, b} = {"CARDIOLOGY", "ORTHOPAEDIC SURGERY"} -> 344
      [] {a, b} = {"CARDIOLOGY", "INTERNAL MEDICINE"} -> 222
      [] {a, b} = {"ORTHO", "CARDIOLOGY"} -> 266
      [] {a, b} = {"ORTHO", "ORTHOPAEDIC SURGERY"} -> 416
      [] {a, b} = {"ORTHO", "INTERNAL MEDICINE"} -> 90
      [] {a, b} = {"JOHN SMITH", "JON SMYTHE"} -> 800
      [] {a, b} = {"JOHN SMITH", "OFFICIAL NAME"} -> 260
      [] {a, b} = {"JOHN SMITH", "NONE NONE"} -> 315
      [] OTHER -> 0

\* Return 0-1 similarity between two strings (in thousandths).
fuzzy_match(a, b) ==
    IF a = "" \/ b = "" THEN 0 ELSE SequenceMatcherRatio(Upper(a), Upper(b))

(***************************************************************************)
(* A phone number is the sequence of its characters.                       *)
(***************************************************************************)
Digits == {"0", "1", "2", "3", "4", "5", "6", "7", "8", "9"}
IsDigit(c) == c \in Digits

PHONE_DIGITS == 10

\* re.sub(r'\D', '', str(phone))[-10:]
normalize_phone(phone) ==
    LET d == SelectSeq(phone, IsDigit)
    IN  SubSeq(d, Max(1, Len(d) - PHONE_DIGITS + 1), Len(d))

NoPhone == <<>>
PhoneRegistry == <<"5", "5", "5", "0", "1", "0", "0", "0", "0", "1">>
PhoneSameFormatted ==
    <<"1", "-", "5", "5", "5", "-", "0", "1", "0", "-", "0", "0", "0", "1">>
PhoneOther == <<"5", "5", "5", "0", "1", "0", "0", "0", "0", "2">>

(***************************************************************************)
(*                      The submitted row and the registry                 *)
(***************************************************************************)
\* A Last_Updated value: empty, text no format parses, or a date that parses
\* and lies age_days before datetime.now().
NoDate == [kind |-> "empty", age_days |-> 0]

CsvRows ==
    [First_Name   : {"John", ""},
     Last_Name    : {"Smith"},
     Credential   : {"MD", ""},
     Specialty    : {"Cardiology"},
     State        : {"tx", ""},
     Phone        : {NoPhone, PhoneSameFormatted, PhoneOther},
     Last_Updated : {NoDate}]

\* The fields of the row that the steps after validate_nppes still read.
LiveRow(row) ==
    [Specialty |-> row.Specialty, State |-> row.State, Phone |-> row.Phone,
     Last_Updated |-> row.Last_Updated]

(***************************************************************************)
(* What the NPPES request can come back with:                              *)
(*   "exception"  client.get or resp.json() raised (timeout, connection    *)
(*                error, a body that is not JSON);                         *)
(*   "error_body" a JSON body without result_count, such as the registry's *)
(*                {"Errors": [...]} answer or the JSON body of an HTTP     *)
(*                error status (the status code is not looked at);         *)
(*   "empty"      result_count == 0;                                       *)
(*   "found"      result_count > 0 with results[0].                        *)
(***************************************************************************)
RegistryNames == {<<"JOHN", "SMITH">>, <<"JON", "SMYTHE">>, <<"OFFICIAL", "NAME">>}

RegistryEntries ==
    {[first_name     |-> n[1],
      last_name      |-> n[2],
      credential     |-> c,
      status         |-> st,
      state          |-> s,
      phone          |-> PhoneRegistry,
      specialty_desc |-> sp,
      license_state  |-> ls] :
        n \in RegistryNames,
        c \in {"", "MD", "M.D.", "NP"},
        st \in {"A", "D", ""},
        s \in {"TX", "NY"},
        sp \in {"Cardiology", "Orthopaedic Surgery", "Internal Medicine"},
        ls \in {"", "TX", "NY"}}

NppesResponses ==
    {[outcome |-> o, entry |-> None] : o \in {"exception", "error_body", "empty"}}
    \cup {[outcome |-> "found", entry |-> e] : e \in RegistryEntries}

\* data.get("result_count", 0)
result_count(resp) == IF resp.outcome = "found" THEN 1 ELSE 0

(***************************************************************************)
(*                       validate_nppes  (D1)                              *)
(***************************************************************************)
\* The registry snapshot kept for the later steps: the fields they read.
NppesData(e) ==
    [status |-> e.status, state |-> e.state, license_state |-> e.license_state,
     credential |-> e.credential, phone |-> e.phone]

NameCheck(row, e) ==
    LET name_sim2 == fuzzy_match(row.First_Name, e.first_name)
                     + fuzzy_match(row.Last_Name, e.last_name)
    IN  IF name_sim2 >= 2 * 850
        THEN [check |-> 10, findings |-> <<Finding("v", "Name match")>>]
        ELSE IF name_sim2 >= 2 * 500
        THEN [check |-> 5, findings |-> <<Finding("!", "Partial name match")>>]
        ELSE [check |-> 0, findings |-> <<Finding("x", "Name MISMATCH")>>]

CredentialCheck(row, e) ==
    LET cred_sim == fuzzy_match(row.Credential, e.credential)
    IN  IF cred_sim >= 700
        THEN [check |-> 10, findings |-> <<>>]
        ELSE IF cred_sim >= 300
        THEN [check |-> 5,
              findings |-> <<Finding("!", "Credential partial match")>>]
        ELSE [check |-> 2,
              findings |-> IF row.Credential # "" /\ e.credential # ""
                           THEN <<Finding("x", "Credential mismatch")>>
                           ELSE <<>>]

SpecialtyCheck(row, e) ==
    LET spec_sim == fuzzy_match(row.Specialty, e.specialty_desc)
    IN  IF spec_sim >= 500
        THEN [check |-> 10, findings |-> <<>>]
        ELSE IF spec_sim >= 250
        THEN [check |-> 6,
              findings |-> <<Finding("!", "Specialty partial match")>>]
        ELSE [check |-> 2, findings |-> <<Finding("x", "Specialty mismatch")>>]

StateCheck(row, e) ==
    IF row.State # "" /\ e.state # "" /\ Upper(row.State) = Upper(e.state)
    THEN [check |-> 10, findings |-> <<>>]
    ELSE [check |-> 0, findings |-> <<Finding("x", "State mismatch")>>]

StatusCheck(e, lambda_penalty) ==
    IF e.status # "" /\ Upper(e.status) = "D"
    THEN [lambda_penalty |-> Max(lambda_penalty, 50),
          findings |-> <<Finding("x", "NPI is DEACTIVATED in NPPES registry")>>]
    ELSE [lambda_penalty |-> lambda_penalty, findings |-> <<>>]

\* A mutation of validate_nppes: a lookup that finds nothing is scored as
\* uncertain, with no penalty.
validate_nppes_lenient(row, resp) ==
    [s1 |-> 3 * (ScoreDen \div 10),
     findings |-> <<Finding("", "NPI NOT FOUND in NPPES registry")>>,
     nppes_data |-> EmptyDict, lambda_penalty |-> 0, nppes_found |-> FALSE]

\* A mutation of validate_nppes: a lookup that finds nothing carries the
\* penalty of a deactivated NPI.
validate_nppes_soft(row, resp) ==
    [s1 |-> 0,
     findings |-> <<Finding("", "NPI NOT FOUND in NPPES registry")>>,
     nppes_data |-> EmptyDict, lambda_penalty |-> 50, nppes_found |-> FALSE]

validate_nppes(row, resp) ==
    IF resp.outcome = "exception"
    THEN [s1 |-> 3 * (ScoreDen \div 10),
          findings |-> <<Finding("", "NPPES API error")>>,
          nppes_data |-> EmptyDict, lambda_penalty |-> 0, nppes_found |-> FALSE]
    ELSE IF result_count(resp) = 0
    THEN [s1 |-> 0,
          findings |-> <<Finding("", "NPI NOT FOUND in NPPES registry")>>,
          nppes_data |-> EmptyDict, lambda_penalty |-> 90, nppes_found |-> FALSE]
    ELSE
        LET e == resp.entry
            c1 == NameCheck(row, e)
            c2 == CredentialCheck(row, e)
            c3 == SpecialtyCheck(row, e)
            c4 == StateCheck(row, e)
            st == StatusCheck(e, 0)
            checks == <<c1.check, c2.check, c3.check, c4.check>>
        IN  [s1 |-> Mean(checks),
             findings |-> c1.findings \o c2.findings \o c3.findings
                          \o c4.findings \o st.findings,
             nppes_data |-> NppesData(e),
             lambda_penalty |-> st.lambda_penalty,
             nppes_found |-> TRUE]

(***************************************************************************)
(*                    validate_reachability  (D2)                          *)
(*                                                                         *)
(* geo is the geocoder's answer ("match", "nomatch", "exception");         *)
(* medicare is the billing lookup's answer: [outcome, state] with outcome  *)
(* "exception", "non200", "empty" or "found" and state the billing state.  *)
(***************************************************************************)
GeocoderResponses == {"match", "nomatch", "exception"}

MedicareResponses ==
    {[outcome |-> o, state |-> ""] : o \in {"exception", "non200", "empty"}}
    \cup {[outcome |-> "found", state |-> s] : s \in {"TX", "NY"}}

GeocoderCheck(geo) ==
    IF geo = "match"
    THEN [check |-> 10, match |-> TRUE,
          findings |-> <<Finding("v", "Address geocoded successfully")>>]
    ELSE IF geo = "nomatch"
    THEN [check |-> 0, match |-> FALSE,
          findings |-> <<Finding("x", "Address could not be geocoded")>>]
    ELSE [check |-> 3, match |-> FALSE,
          findings |-> <<Finding("", "Geocoder API error")>>]

\* PhoneCheck reporting a differing phone number as a failed check, not as
\* a warning
PhoneCheckFail(row, nppes_data) ==
    LET csv_phone == normalize_phone(row.Phone)
        nppes_phone == normalize_phone(IF nppes_data = EmptyDict THEN NoPhone
                                       ELSE nppes_data.phone)
    IN  IF csv_phone # <<>> /\ nppes_phone # <<>>
        THEN IF csv_phone = nppes_phone
             THEN [checks |-> <<10>>,
                   findings |-> <<Finding("v", "Phone number matches NPPES record")>>]
             ELSE [checks |-> <<3>>,
                   findings |-> <<Finding("x", "Phone mismatch")>>]
        ELSE IF csv_phone # <<>>
        THEN [checks |-> <<5>>, findings |-> <<>>]
        ELSE [checks |-> <<>>, findings |-> <<>>]

PhoneCheck(row, nppes_data) ==
    LET csv_phone == normalize_phone(row.Phone)
        nppes_phone == normalize_phone(IF nppes_data = EmptyDict THEN NoPhone
                                       ELSE nppes_data.phone)
    IN  IF csv_phone # <<>> /\ nppes_phone # <<>>
        THEN IF csv_phone = nppes_phone
             THEN [checks |-> <<10>>,
                   findings |-> <<Finding("v", "Phone number matches NPPES record")>>]
             ELSE [checks |-> <<3>>,
                   findings |-> <<Finding("!", "Phone mismatch")>>]
        ELSE IF csv_phone # <<>>
        THEN [checks |-> <<5>>, findings |-> <<>>]
        ELSE [checks |-> <<>>, findings |-> <<>>]

MedicareCheck(row, medicare) ==
    IF medicare.outcome = "exception"
    THEN [checks |-> <<5>>, found |-> FALSE,
          findings |-> <<Finding("", "Medicare API timeout (non-critical)")>>]
    ELSE IF medicare.outcome = "non200"
    THEN [checks |-> <<5>>, found |-> FALSE, findings |-> <<>>]
    ELSE IF medicare.outcome = "empty"
    THEN [checks |-> <<5>>, found |-> FALSE,
          findings |-> <<Finding("!", "No Medicare billing records found for this NPI")>>]
    ELSE LET csv_state_upper == Upper(row.State)
         IN  IF medicare.state # "" /\ csv_state_upper # ""
                /\ medicare.state # csv_state_upper
             THEN [checks |-> <<10, 3>>, found |-> TRUE,
                   findings |->
                       <<Finding("v", "Medicare billing activity found"),
                         Finding("!", "Medicare billing state differs from CSV state")>>]
             ELSE [checks |-> <<10>>, found |-> TRUE,
                   findings |-> <<Finding("v", "Medicare billing activity found")>>]

validate_reachability(row, nppes_data, geo, medicare) ==
    LET g == GeocoderCheck(geo)
        p == PhoneCheck(row, nppes_data)
        m == MedicareCheck(row, medicare)
        checks == <<g.check>> \o p.checks \o m.checks
    IN  [s2 |-> IF checks # <<>> THEN Mean(checks) ELSE 5 * (ScoreDen \div 10),
         findings |-> g.findings \o p.findings \o m.findings,
         medicare_found |-> m.found,
         geocoder_match |-> g.match]

(***************************************************************************)
(*                      compute_reputation  (D3)                           *)
(***************************************************************************)
ReputationStatusCheck(nppes_data) ==
    IF nppes_data.status # "" /\ Upper(nppes_data.status) = "A"
    THEN [checks |-> <<10>>,
          findings |-> <<Finding("v", "NPI status is Active")>>]
    ELSE IF nppes_data.status # ""
    THEN [checks |-> <<0>>, findings |-> <<Finding("x", "NPI status")>>]
    ELSE [checks |-> <<7>>, findings |-> <<>>]

LicenseStateCheck(nppes_data, row) ==
    IF nppes_data.license_state # "" /\ row.State # ""
    THEN IF Upper(nppes_data.license_state) = Upper(row.State)
         THEN [checks |-> <<10>>,
               findings |-> <<Finding("v", "License state matches CSV state")>>]
         ELSE [checks |-> <<4>>,
               findings |-> <<Finding("!", "License state differs from CSV state")>>]
    ELSE [checks |-> <<>>, findings |-> <<>>]

CredentialPresentCheck(nppes_data) ==
    IF nppes_data.credential # ""
    THEN [checks |-> <<10>>, findings |-> <<>>]
    ELSE [checks |-> <<6>>,
          findings |-> <<Finding("!", "No credential on file in NPPES")>>]

\* compute_reputation scoring missing registry data as neutral (0.5), not
\* as uncertain (0.3)
compute_reputation_neutral(nppes_data, row) ==
    IF nppes_data = EmptyDict
    THEN [s3 |-> 5 * (ScoreDen \div 10),
          findings |-> <<Finding("!", "Cannot assess reputation - NPPES data unavailable")>>]
    ELSE LET a == ReputationStatusCheck(nppes_data)
             b == LicenseStateCheck(nppes_data, row)
             c == CredentialPresentCheck(nppes_data)
             checks == a.checks \o b.checks \o c.checks
         IN  [s3 |-> IF checks # <<>> THEN Mean(checks) ELSE 5 * (ScoreDen \div 10),
              findings |-> a.findings \o b.findings \o c.findings]

compute_reputation(nppes_data, row) ==
    IF nppes_data = EmptyDict
    THEN [s3 |-> 3 * (ScoreDen \div 10),
          findings |-> <<Finding("!", "Cannot assess reputation - NPPES data unavailable")>>]
    ELSE LET a == ReputationStatusCheck(nppes_data)
             b == LicenseStateCheck(nppes_data, row)
             c == CredentialPresentCheck(nppes_data)
             checks == a.checks \o b.checks \o c.checks
         IN  [s3 |-> IF checks # <<>> THEN Mean(checks) ELSE 5 * (ScoreDen \div 10),
              findings |-> a.findings \o b.findings \o c.findings]

\* "License state" in f and "differs" in f
LicenseStateDiffers(f) == f.text = "License state differs from CSV state"

(***************************************************************************)
(*                     compute_decay_probability                           *)
(*                                                                         *)
(* Rates in hundredths, factors in tenths; the result is in hundredths.    *)
(* A Last_Updated value is [kind, age_days]: kind "empty", "unparseable"   *)
(* (a string none of the formats parses), "nonstring" (a value whose       *)
(* [:10] raises) or "date" (parsed, age_days days before now).             *)
(***************************************************************************)
SPECIALTY_DECAY_RATES(specialty) ==
    CASE specialty = "Internal Medicine" -> 15
      [] specialty = "Family Medicine" -> 12
      [] specialty = "Family Practice" -> 12
      [] specialty = "Cardiology" -> 10
      [] specialty = "Orthopedic Surgery" -> 10
      [] specialty = "Dermatology" -> 8
      [] specialty = "Psychiatry" -> 18
      [] specialty = "Emergency Medicine" -> 25
      [] specialty = "Urgent Care" -> 30
      [] specialty = "Physician Assistant" -> 22
      [] specialty = "Nurse Practitioner" -> 20
      [] specialty = "Physical Therapist" -> 18
      [] specialty = "Optometry" -> 10
      [] specialty = "Podiatry" -> 12
      [] specialty = "Chiropractic" -> 14
      [] specialty = "General Surgery" -> 13
      [] OTHER -> 15

HIGH_MOBILITY_STATES == {"FL", "AZ", "NV", "TX", "CA", "CO", "GA"}

\* A mutation of RecencyFactor: data older than 24 months counts as fresh.
RecencyFactorDip(last_updated) ==
    IF last_updated.kind = "empty" THEN 10
    ELSE IF last_updated.kind = "nonstring" THEN 15
    ELSE IF last_updated.kind = "unparseable" THEN 10
    ELSE IF last_updated.age_days > 24 * 30 THEN 10
    ELSE IF last_updated.age_days > 12 * 30 THEN 18
    ELSE IF last_updated.age_days > 6 * 30 THEN 13
    ELSE 10

\* months_since = days / 30.0 compared with 24, 12 and 6
RecencyFactor(last_updated) ==
    IF last_updated.kind = "empty" THEN 10
    ELSE IF last_updated.kind = "nonstring" THEN 15
    ELSE IF last_updated.kind = "unparseable" THEN 10
    ELSE IF last_updated.age_days > 24 * 30 THEN 25
    ELSE IF last_updated.age_days > 12 * 30 THEN 18
    ELSE IF last_updated.age_days > 6 * 30 THEN 13
    ELSE 10

\* The products base * recency * state_factor that end in exactly half a
\* hundredth and that the float product carries above the half, so that
\* round(., 2) goes up; the other half-way products go down.
DecayTiesUp ==
    {<<15, 10, 13>>, <<15, 13, 10>>, <<15, 25, 10>>, <<10, 15, 13>>, <<10, 25, 13>>,
     <<25, 10, 13>>, <<25, 13, 10>>, <<25, 15, 10>>, <<25, 18, 13>>, <<30, 25, 13>>,
     <<22, 25, 13>>, <<14, 25, 13>>, <<13, 15, 10>>, <<13, 25, 10>>}

DECAY_CAP == 99

\* round(min(decay, 0.99), 2) in hundredths
compute_decay_probability(specialty, last_updated, st) ==
    LET base == SPECIALTY_DECAY_RATES(specialty)
        recency == RecencyFactor(last_updated)
        state_factor == IF st # "" /\ Upper(st) \in HIGH_MOBILITY_STATES
                        THEN 13 ELSE 10
        decay == Min(base * recency * state_factor, DECAY_CAP * 100)
        q == decay \div 100
        r == decay % 100
    IN  IF r > 50 \/ (r = 50 /\ <<base, recency, state_factor>> \in DecayTiesUp)
        THEN q + 1 ELSE q

(***************************************************************************)
(*                     cross_reference_complaints                          *)
(*                                                                         *)
(* A complaint is [field |-> ...].  KeywordsIn(text) are the keywords of   *)
(* FIELD_KEYWORDS that occur in the lower-cased finding text (exception    *)
(* texts and interpolated values are taken to contain none).               *)
(***************************************************************************)
FIELD_KEYWORDS(field) ==
    CASE field = "phone" -> {"phone", "telephone"}
      [] field = "address" -> {"address", "geocod", "location", "moved"}
      [] field = "specialty" -> {"specialty", "specializ", "taxonomy"}
      [] field = "name" -> {"name", "mismatch"}
      [] OTHER -> {}

KeywordsIn(text) ==
    CASE text = "Name match" -> {"name"}
      [] text = "Partial name match" -> {"name"}
      [] text = "Name MISMATCH" -> {"name", "mismatch"}
      [] text = "Credential mismatch" -> {"mismatch"}
      [] text = "Specialty partial match" -> {"specialty"}
      [] text = "Specialty mismatch" -> {"specialty", "mismatch"}
      [] text = "State mismatch" -> {"mismatch"}
      [] text = "Address geocoded successfully" -> {"address", "geocod"}
      [] text = "Address could not be geocoded" -> {"address", "geocod"}
      [] text = "Geocoder API error" -> {"geocod"}
      [] text = "Phone number matches NPPES record" -> {"phone"}
      [] text = "Phone mismatch" -> {"phone", "mismatch"}
      [] text = "{'agentName': 'Validation Agent', 'thought': 'Name match'}" -> {"name"}
      [] text = "{'agentName': 'Validation Agent', 'thought': 'Name MISMATCH'}" -> {"name", "mismatch"}
      [] text = "{'agentName': 'Validation Agent', 'thought': 'NPI NOT FOUND in NPPES registry'}" -> {"name"}
      [] OTHER -> {}

\* the keywords found in " ".join(validation_findings).lower()
FindingsKeywords(validation_findings) ==
    UNION {KeywordsIn(validation_findings[i].text) : i \in DOMAIN validation_findings}

IsConfirmed(complaint, validation_findings) ==
    FIELD_KEYWORDS(complaint.field) \cap FindingsKeywords(validation_findings) # {}

CONFIRMED_BOOST == 15
UNCONFIRMED_BOOST == 8
BOOST_CAP == 50

\* the lambda_boost accumulated by the loop over provider_complaints
RECURSIVE BoostSum(_, _)
BoostSum(provider_complaints, validation_findings) ==
    IF provider_complaints = <<>> THEN 0
    ELSE (IF IsConfirmed(Head(provider_complaints), validation_findings)
          THEN CONFIRMED_BOOST ELSE UNCONFIRMED_BOOST)
         + BoostSum(Tail(provider_complaints), validation_findings)

Thought(agentName, text, verdict) ==
    [agentName |-> agentName, thought |-> text, verdict |-> verdict]

ComplaintThoughts(confirmed, unconfirmed) ==
    (IF Len(confirmed) > 0
     THEN <<Thought("Complaint Directory", "MATCH FOUND", "fail")>>
     ELSE <<>>)
    \o (IF Len(unconfirmed) > 0
        THEN <<Thought("Complaint Directory",
                       "member complaint(s) found in registry", "warn")>>
        ELSE <<>>)

\* A mutation of cross_reference_complaints: the boost is not capped.
cross_reference_complaints_uncapped(provider_complaints, validation_findings) ==
    LET confirmed == SelectSeq(provider_complaints,
                               LAMBDA c : IsConfirmed(c, validation_findings))
        unconfirmed == SelectSeq(provider_complaints,
                                 LAMBDA c : ~IsConfirmed(c, validation_findings))
    IN  [lambda_boost |-> BoostSum(provider_complaints, validation_findings),
         confirmed |-> confirmed,
         unconfirmed |-> unconfirmed,
         thoughts |-> ComplaintThoughts(confirmed, unconfirmed)]

cross_reference_complaints(provider_complaints, validation_findings) ==
    IF provider_complaints = <<>>
    THEN [lambda_boost |-> 0, confirmed |-> <<>>, unconfirmed |-> <<>>,
          thoughts |-> <<>>]
    ELSE
        LET confirmed == SelectSeq(provider_complaints,
                                   LAMBDA c : IsConfirmed(c, validation_findings))
            unconfirmed == SelectSeq(provider_complaints,
                                     LAMBDA c : ~IsConfirmed(c, validation_findings))
        IN  [lambda_boost |->
                 Min(BoostSum(provider_complaints, validation_findings), BOOST_CAP),
             confirmed |-> confirmed,
             unconfirmed |-> unconfirmed,
             thoughts |-> ComplaintThoughts(confirmed, unconfirmed)]

(***************************************************************************)
(*                       generate_agent_thoughts                           *)
(***************************************************************************)
RECURSIVE FindingThoughts(_, _)
FindingThoughts(agentName, findings) ==
    IF findings = <<>> THEN <<>>
    ELSE <<Thought(agentName, Head(findings).text, Verdict(Head(findings)))>>
         \o FindingThoughts(agentName, Tail(findings))

\* decay_prob in hundredths
DegradationThought(decay_prob) ==
    IF decay_prob > 70
    THEN Thought("Predictive Degradation", "High decay probability", "fail")
    ELSE IF decay_prob > 30
    THEN Thought("Predictive Degradation", "Moderate decay risk", "warn")
    ELSE Thought("Predictive Degradation", "Low decay probability", "pass")

\* risk_score = 100 - trust_score, in tenths
CommunicatorThoughts(trust_score) ==
    LET risk_score == 1000 - trust_score
    IN  IF risk_score > 700
        THEN <<Thought("Communicator",
                       "Drafted 'Urgent Credential Update Request' email", "neutral")>>
        ELSE IF risk_score > 400
        THEN <<Thought("Communicator",
                       "Scheduled automated follow-up for data verification", "neutral")>>
        ELSE <<>>

generate_agent_thoughts(nppes_res, reach_res, reputation_res, trust_score, decay_prob) ==
    FindingThoughts("Validation Agent", Take(nppes_res.findings, 3))
    \o FindingThoughts("Multi-source Validation", Take(reach_res.findings, 3))
    \o FindingThoughts("Fraud Detection", Take(reputation_res.findings, 2))
    \o <<DegradationThought(decay_prob)>>
    \o CommunicatorThoughts(trust_score)

(***************************************************************************)
(*          validate_single_provider: the part after D1 and D2             *)
(***************************************************************************)
\* not geocoder_match and a "License state ... differs" reputation finding
JointFailure(reach_res, reputation_res) ==
    /\ ~reach_res.geocoder_match
    /\ \E i \in DOMAIN reputation_res.findings :
           LicenseStateDiffers(reputation_res.findings[i])

\* A mutation of LambdaPenalty: the joint failure is added to the identity
\* penalty instead of being combined with max.
LambdaPenaltySum(nppes_res, reach_res, reputation_res, complaint_res) ==
    Min(nppes_res.lambda_penalty
        + (IF JointFailure(reach_res, reputation_res) THEN 50 ELSE 0)
        + complaint_res.lambda_boost, LAMBDA_CAP)

\* the lambda handed to compute_trust_score
LambdaPenalty(nppes_res, reach_res, reputation_res, complaint_res) ==
    LET base == nppes_res.lambda_penalty
        joint == IF JointFailure(reach_res, reputation_res)
                 THEN Max(base, 50) ELSE base
    IN  Min(joint + complaint_res.lambda_boost, LAMBDA_CAP)

\* A mutation of StatusOf: the Review bucket starts at 40 instead of 35.
StatusOfShifted(risk_score) ==
    IF risk_score > 700 THEN "Flagged"
    ELSE IF risk_score > 400 THEN "Review"
    ELSE "Verified"

\* risk_score in tenths
StatusOf(risk_score) ==
    IF risk_score > 700 THEN "Flagged"
    ELSE IF risk_score > 350 THEN "Review"
    ELSE "Verified"

RECURSIVE FailTexts(_)
FailTexts(findings) ==
    IF findings = <<>> THEN <<>>
    ELSE (IF Head(findings).mark = "x" THEN <<Head(findings).text>> ELSE <<>>)
         \o FailTexts(Tail(findings))

RECURSIVE ConfirmedTexts(_)
ConfirmedTexts(confirmed) ==
    IF confirmed = <<>> THEN <<>>
    ELSE <<"Confirmed Complaint: " \o Head(confirmed).field>>
         \o ConfirmedTexts(Tail(confirmed))

IsPdaOrCommunicator(t) == t.agentName \in {"Predictive Degradation", "Communicator"}
IsCoreThought(t) == ~IsPdaOrCommunicator(t)

\* The dict validate_single_provider returns, for the trust score and the
\* decay probability the two scorers returned.
ProviderResult(row, nppes_res, reach_res, provider_complaints, trust_score, decay_prob) ==
    LET reputation_res == compute_reputation(nppes_res.nppes_data, row)
        all_findings == nppes_res.findings \o reach_res.findings
                        \o reputation_res.findings
        complaint_res == cross_reference_complaints(provider_complaints, all_findings)
        risk_score == 1000 - trust_score
        thoughts == generate_agent_thoughts(nppes_res, reach_res, reputation_res,
                                            trust_score, decay_prob)
    IN  [risk_score |-> risk_score,
         trust_score |-> trust_score,
         decay_prob |-> decay_prob,
         status |-> StatusOf(risk_score),
         conflicts |-> FailTexts(nppes_res.findings) \o FailTexts(reach_res.findings)
                       \o ConfirmedTexts(complaint_res.confirmed),
         thoughts |-> SelectSeq(thoughts, IsCoreThought) \o complaint_res.thoughts
                      \o SelectSeq(thoughts, IsPdaOrCommunicator),
         complaints |-> provider_complaints,
         s1 |-> nppes_res.s1,
         s2 |-> reach_res.s2,
         s3 |-> reputation_res.s3,
         lambda |-> LambdaPenalty(nppes_res, reach_res, reputation_res, complaint_res)]

(***************************************************************************)
(* The complaint directory: what load_complaints() can hold for the NPI of *)
(* the row at the time validate_single_provider reads it.                  *)
(***************************************************************************)
Complaint(field) == [field |-> field]

DirectoryLists ==
    {<<>>,
     <<Complaint("address")>>,
     <<Complaint("general"), Complaint("name")>>,
     <<Complaint("phone"), Complaint("address"), Complaint("name"),
       Complaint("specialty")>>}

(***************************************************************************)
(*                   validate_single_provider as steps                     *)
(*                                                                         *)
(* The coroutine is suspended at the NPPES request and again inside        *)
(* validate_reachability; everything after that runs without suspension.   *)
(* env records what the outside answered (the registry, the geocoder, the  *)
(* billing lookup), for stating the claims.                                *)
(***************************************************************************)
NoEnv == [nppes |-> None, geo |-> None, medicare |-> None]

\* none of the components added later has been called
GraphIdle ==
    /\ graph = None
    /\ active = {}
    /\ triggered = {}
    /\ contacted = FALSE
    /\ job_store = None

LoopIdle ==
    /\ handler = None
    /\ file_rows = <<>>
    /\ outcomes = <<>>
    /\ complaint_store = <<>>
    /\ idx = 0
    /\ records = <<>>
    /\ response = None

OthersIdle == dc = NoCall /\ ba = NoCall /\ impact = NoCall /\ GraphIdle /\ LoopIdle

PipelineIdle ==
    /\ pc = "idle"
    /\ csv_row = None
    /\ env = NoEnv
    /\ nppes_result = None
    /\ reachability_result = None
    /\ record = None

PipelineUnchanged ==
    UNCHANGED <<pc, csv_row, env, nppes_result, reachability_result, record>>

\* D1: nppes_result = await validate_nppes(npi, csv_row, client)
ValidateNppes ==
    /\ pc = "start"
    /\ \E resp \in NppesResponses :
           /\ nppes_result' = validate_nppes(csv_row, resp)
           /\ env' = [env EXCEPT !.nppes = resp.outcome]
    /\ csv_row' = LiveRow(csv_row)
    /\ pc' = "d1_done"
    /\ UNCHANGED <<ts, cx, reachability_result, record, state, other_components>>

\* D2: reachability_result = await validate_reachability(csv_row, nppes_data, ...)
ValidateReachability ==
    /\ pc = "d1_done"
    /\ \E geo \in GeocoderResponses, medicare \in MedicareResponses :
           /\ reachability_result' =
                  validate_reachability(csv_row, nppes_result.nppes_data, geo, medicare)
           /\ env' = [env EXCEPT !.geo = geo, !.medicare = medicare.outcome]
    /\ pc' = "d2_done"
    /\ UNCHANGED <<ts, cx, csv_row, nppes_result, record, state, other_components>>

\* D3, the complaint check, the scores, the status and the returned dict
ScoreProvider ==
    /\ pc = "d2_done"
    /\ \E provider_complaints \in DirectoryLists :
           LET reputation_res == compute_reputation(nppes_result.nppes_data, csv_row)
               complaint_res ==
                   cross_reference_complaints(
                       provider_complaints,
                       nppes_result.findings \o reachability_result.findings
                       \o reputation_res.findings)
               lambda_penalty == LambdaPenalty(nppes_result, reachability_result,
                                               reputation_res, complaint_res)
           IN  \E trust_score \in compute_trust_score(nppes_result.s1,
                                                      reachability_result.s2,
                                                      reputation_res.s3,
                                                      lambda_penalty) :
                   record' = ProviderResult(csv_row, nppes_result,
                                            reachability_result, provider_complaints,
                                            trust_score,
                                            compute_decay_probability(
                                                csv_row.Specialty,
                                                csv_row.Last_Updated,
                                                csv_row.State))
    /\ pc' = "done"
    /\ UNCHANGED <<ts, cx, csv_row, env, nppes_result, reachability_result, state, other_components>>

(***************************************************************************)
(*                 The two scorers called on their own                     *)
(***************************************************************************)
\* T = compute_trust_score(s1, s2, s3, lambda_penalty) on the drawn arguments
TrustScorer ==
    /\ ~ts.called
    /\ \E T \in compute_trust_score(ts.s1, ts.s2, ts.s3, ts.lambda_penalty) :
           ts' = [ts EXCEPT !.called = TRUE, !.T = T]
    /\ PipelineUnchanged
    /\ UNCHANGED <<cx, state, other_components>>

MaxComplaints == 4

ComplaintFields == {"phone", "address", "specialty", "name", "general", "email"}

ComplaintLists ==
    UNION {[1..n -> {Complaint(f) : f \in ComplaintFields}] : n \in 0..MaxComplaints}

\* Lists of findings as the three dimensions produce them.
FindingsSamples ==
    {<<>>,
     <<Finding("", "NPI NOT FOUND in NPPES registry"),
       Finding("", "Geocoder API error")>>,
     <<Finding("v", "Name match"), Finding("x", "Address could not be geocoded"),
       Finding("!", "Phone mismatch")>>,
     <<Finding("x", "Specialty mismatch"), Finding("v", "NPI status is Active")>>}

\* cross_reference_complaints(npi, provider_complaints, validation_findings)
CrossReference ==
    /\ ~cx.called
    /\ cx' = [cx EXCEPT !.called = TRUE,
                        !.result = cross_reference_complaints(cx.provider_complaints,
                                                              cx.validation_findings)]
    /\ PipelineUnchanged
    /\ UNCHANGED <<ts, state, other_components>>

(***************************************************************************)
(*                           Specifications                                *)
(***************************************************************************)
\* validate_single_provider on one submitted row
Init ==
    /\ OthersIdle
    /\ ts = NoCall
    /\ cx = NoCall
    /\ pc = "start"
    /\ csv_row \in CsvRows
    /\ env = NoEnv
    /\ nppes_result = None
    /\ reachability_result = None
    /\ record = None
    /\ state = None

Next == ValidateNppes \/ ValidateReachability \/ ScoreProvider

Spec == Init /\ [][Next]_vars

\* compute_trust_score over the grid of valid inputs
InitTrust ==
    /\ OthersIdle
    /\ ts \in [called : {FALSE}, s1 : ScoreGrid, s2 : ScoreGrid, s3 : ScoreGrid,
                lambda_penalty : LambdaGrid, T : {None}]
    /\ cx = NoCall
    /\ PipelineIdle
    /\ state = None

NextTrust == TrustScorer

SpecTrust == InitTrust /\ [][NextTrust]_vars

\* cross_reference_complaints over complaint lists and findings
InitComplaints ==
    /\ OthersIdle
    /\ ts = NoCall
    /\ cx \in [called : {FALSE}, provider_complaints : ComplaintLists,
                validation_findings : FindingsSamples, result : {None}]
    /\ PipelineIdle
    /\ state = None

NextComplaints == CrossReference

SpecComplaints == InitComplaints /\ [][NextComplaints]_vars

(***************************************************************************)
(*                  The validation (judge) stage of a job                  *)
(*                                                                         *)
(* state is the MainAgentState of one job.  Two nodes implement the stage: *)
(* validation_agent_node (agents/validation.py) and sub_agent_validation,  *)
(* the node that app/graph.py wires into orchestrator_graph.               *)
(***************************************************************************)
\* An Optional[...] model field that holds no object
Null == [null |-> TRUE]

\* models.ValidationResult
ValidationResult(is_consistent, conflicts, npi_valid, license_valid, oig_excluded, sources_checked, details) ==
    [is_consistent |-> is_consistent, conflicts |-> conflicts,
     npi_valid |-> npi_valid, license_valid |-> license_valid,
     oig_excluded |-> oig_excluded, sources_checked |-> sources_checked,
     details |-> details]

\* the field defaults of models.ValidationResult
ValidationResultDefaults == ValidationResult(FALSE, <<>>, FALSE, FALSE, FALSE, <<>>, "")

ConflictDetails(field, entry_value, document_value, description) ==
    [field |-> field, entry_value |-> entry_value,
     document_value |-> document_value, description |-> description]

\* FuzzyMatchTool.ratio in thousandths; lower-casing both sides gives the
\* ratio of the upper-cased strings.
ratio(str1, str2) ==
    IF str1 = "" \/ str1 = None \/ str2 = "" \/ str2 = None THEN 0
    ELSE SequenceMatcherRatio(Upper(str1), Upper(str2))

NAME_THRESHOLD == 800

JudgeNpis == {None, "12345", "1100000001", "8800000001", "9900000001", "1234567890"}

\* npi[:2] if npi else ""
npi_prefix(npi) ==
    CASE npi = "1100000001" -> "11"
      [] npi = "8800000001" -> "88"
      [] npi = "9900000001" -> "99"
      [] npi \in {"12345", "1234567890"} -> "12"
      [] OTHER -> ""

ProviderRecords ==
    [npi : JudgeNpis, first_name : {"John", None}, last_name : {"Smith"}]

ParsedDocs ==
    [extracted_npi : {None, "1234567890", "9900000001"},
     extracted_name : {None, "John Smith", "Jon Smythe", "Official Name"}]

\* What the registry holds under basic.first_name / basic.last_name; an
\* organisation entry has neither key.
RegistryBasics ==
    {<<"John", "Smith">>, <<"Jon", "Smythe">>, <<"Official", "Name">>, <<None, None>>}

\* NpiRegistryTool.lookup(npi)
LookupResults(npi) ==
    IF npi \in {None, "12345"}
    THEN {[valid |-> FALSE, error |-> "Invalid format", data |-> Null]}
    ELSE {[valid |-> TRUE, error |-> None,
           data |-> [first_name |-> b[1], last_name |-> b[2]]] : b \in RegistryBasics}
         \cup {[valid |-> FALSE, error |-> e, data |-> Null] :
                  e \in {"Not Found", "API Error", "timeout"}}

\* the npi_result of validation_agent_node: the demo prefixes, else the lookup
NpiResults(provider_data) ==
    LET npi == provider_data.npi
    IN  CASE npi_prefix(npi) = "99" ->
               {[valid |-> TRUE, error |-> None,
                 data |-> [first_name |-> provider_data.first_name,
                           last_name |-> provider_data.last_name]]}
          [] npi_prefix(npi) = "88" ->
               {[valid |-> TRUE, error |-> None,
                 data |-> [first_name |-> "Official", last_name |-> "Name"]]}
          [] npi_prefix(npi) = "11" ->
               {[valid |-> FALSE, error |-> "Simulated Invalid", data |-> Null]}
          [] npi = None ->
               {[valid |-> FALSE, error |-> "No NPI", data |-> Null]}
          [] OTHER -> LookupResults(npi)

\* f"{first} {last}": str(None) is "None"
FullName(first, last) == first \o " " \o last

\* f"{first_name} {last_name}" if first_name and last_name else ""
EntryName(provider_data) ==
    IF provider_data.first_name \notin {None, ""} /\ provider_data.last_name \notin {None, ""}
    THEN FullName(provider_data.first_name, provider_data.last_name)
    ELSE ""

\* the conflicts of entry against document
DocumentConflicts(provider_data, parsed_data) ==
    IF parsed_data = Null THEN <<>>
    ELSE LET npi == provider_data.npi
             doc_npi == parsed_data.extracted_npi
             doc_name == parsed_data.extracted_name
             entry_name == EntryName(provider_data)
         IN  (IF doc_npi # None /\ npi # None /\ doc_npi # npi
              THEN <<ConflictDetails("NPI", npi, doc_npi,
                                     "NPI mismatch between entry and document.")>>
              ELSE <<>>)
             \o (IF doc_name # None /\ ratio(entry_name, doc_name) < NAME_THRESHOLD
                 THEN <<ConflictDetails("Name", entry_name, doc_name, "Name mismatch")>>
                 ELSE <<>>)

\* the conflict of entry against registry
RegistryConflicts(provider_data, npi_result) ==
    LET entry_name == EntryName(provider_data)
    IN  IF npi_result.valid /\ entry_name # ""
        THEN LET reg_name == FullName(npi_result.data.first_name,
                                      npi_result.data.last_name)
             IN  IF ratio(entry_name, reg_name) < NAME_THRESHOLD
                 THEN <<ConflictDetails("Name (Registry)", entry_name, reg_name,
                          "Entry name does not match official NPI Registry record.")>>
                 ELSE <<>>
        ELSE <<>>

\* agents/validation.py: the update validation_agent_node returns
validation_agent_node(s, npi_result) ==
    LET conflicts == DocumentConflicts(s.provider_data, s.parsed_data)
                     \o RegistryConflicts(s.provider_data, npi_result)
        is_consistent == Len(conflicts) = 0
        details_msg == IF ~npi_result.valid THEN "NPI Invalid"
                       ELSE IF conflicts # <<>> THEN "Conflicts detected"
                       ELSE "Validation passed."
        errors == (IF ~npi_result.valid THEN <<"Invalid NPI">> ELSE <<>>)
                  \o (IF conflicts # <<>>
                      THEN <<"Consistency conflicts detected.">> ELSE <<>>)
    IN  [s EXCEPT
           !.validation_result =
               ValidationResult(is_consistent, conflicts, npi_result.valid, TRUE,
                                npi_prefix(s.provider_data.npi) = "11",
                                <<"NPPES_NPI_Registry_Live", "Fuzzy_Judge">>,
                                details_msg),
           !.errors = errors]

\* app/graph.py: the state sub_agent_validation returns
sub_agent_validation(s) ==
    [s EXCEPT
       !.validation_result =
           [ValidationResultDefaults EXCEPT
              !.npi_valid = TRUE, !.license_valid = TRUE, !.oig_excluded = FALSE,
              !.sources_checked = <<"NPI_REGISTRY", "OIG_DB">>,
              !.details = "Provider found and active."]]

JudgeUnchanged ==
    UNCHANGED <<ts, cx, csv_row, env, nppes_result, reachability_result, record,
                other_components>>

ValidationAgentNode ==
    /\ pc = "validation_agent"
    /\ \E npi_result \in NpiResults(state.provider_data) :
           state' = validation_agent_node(state, npi_result)
    /\ pc' = "fraud_agent"
    /\ JudgeUnchanged

SubAgentValidation ==
    /\ pc = "validation_agent"
    /\ state' = sub_agent_validation(state)
    /\ pc' = "fraud_agent"
    /\ JudgeUnchanged

\* one job at the validation stage, with the record and what the parser left
InitJudge ==
    /\ OthersIdle
    /\ ts = NoCall
    /\ cx = NoCall
    /\ pc = "validation_agent"
    /\ csv_row = None
    /\ env = NoEnv
    /\ nppes_result = None
    /\ reachability_result = None
    /\ record = None
    /\ state \in [provider_data : ProviderRecords,
                  parsed_data : {Null} \cup ParsedDocs,
                  validation_result : {Null},
                  errors : {<<>>}]

NextJudge == ValidationAgentNode \/ SubAgentValidation

SpecJudge == InitJudge /\ [][NextJudge]_vars

(***************************************************************************)
(*                              Properties                                 *)
(***************************************************************************)
AllOnes == ts.s1 = ScoreDen /\ ts.s2 = ScoreDen /\ ts.s3 = ScoreDen
AllPositive == ts.s1 > 0 /\ ts.s2 > 0 /\ ts.s3 > 0

\* C1: compute_trust_score returns a value in [0, 100] (0..1000 tenths) for
\* every s1, s2, s3 in [0, 1] and every lambda in [0, 0.95].
C1_TrustScoreInRange ==
    ts.called => (0 <= ts.T /\ ts.T <= 1000)

\* the highest inputs with no penalty reach the upper end of the range
C1_Witness ==
    ts.called /\ AllOnes /\ ts.lambda_penalty = 0 /\ ts.T = 1000

\* C2 as stated: compute_trust_score(1,1,1,0) is exactly 100.0, and for any
\* s1, s2, s3 > 0 the score with lambda = 0.95 is strictly less than the
\* score with lambda = 0.
C2_StrictlyLessForAnyPositive ==
    (ts.called /\ ts.lambda_penalty = 0) =>
        /\ AllOnes => ts.T = 1000
        /\ AllPositive =>
               \A T95 \in compute_trust_score(ts.s1, ts.s2, ts.s3, LAMBDA_CAP) :
                   T95 < ts.T

\* C2 amended: compute_trust_score(1,1,1,0) is exactly 100.0; the score with
\* lambda = 0.95 is never greater than the score with lambda = 0, and it is
\* strictly less whenever the score with lambda = 0 is not 0.0.
C2_StrictlyLessWhenNonZero ==
    (ts.called /\ ts.lambda_penalty = 0) =>
        /\ AllOnes => ts.T = 1000
        /\ \A T95 \in compute_trust_score(ts.s1, ts.s2, ts.s3, LAMBDA_CAP) :
               /\ T95 <= ts.T
               /\ ts.T > 0 => T95 < ts.T

\* positive scores whose unpenalised score is strictly inside the range
C2_Witness ==
    ts.called /\ ts.lambda_penalty = 0 /\ AllPositive /\ ts.T > 0 /\ ts.T < 1000

\* What the finished record was computed from.
ReputationOfRecord == compute_reputation(nppes_result.nppes_data, csv_row)

BoostOfRecord ==
    cross_reference_complaints(
        record.complaints,
        nppes_result.findings \o reachability_result.findings
        \o ReputationOfRecord.findings).lambda_boost

JointFailureOfRecord == JointFailure(reachability_result, ReputationOfRecord)

C4_RiskAndStatus ==
    pc = "done" =>
        /\ record.risk_score = 1000 - record.trust_score
        /\ record.status = "Flagged" <=> record.risk_score > 700
        /\ record.status = "Review" <=>
               (350 < record.risk_score /\ record.risk_score <= 700)
        /\ record.status = "Verified" <=> record.risk_score <= 350

\* a record just above the Review threshold
C4_Witness ==
    /\ pc = "done"
    /\ record.status = "Review"
    /\ record.risk_score > 350
    /\ record.risk_score <= 400

\* C5: when the registry reports the NPI as not found, validate_nppes
\* returns s1 = 0.0 and a lambda contribution of exactly 0.9, whatever the
\* submitted name, credential, specialty and state are.
C5_NotFoundScore ==
    (pc # "start" /\ env.nppes = "empty") =>
        (nppes_result.s1 = 0 /\ nppes_result.lambda_penalty = 90)

C5_Witness ==
    /\ pc = "d1_done"
    /\ env.nppes = "empty"
    /\ nppes_result.s1 = 0
    /\ ~nppes_result.nppes_found

\* C6: a record whose NPI is not found in the registry always ends with
\* status 'Flagged', for every geocoder outcome, billing-activity outcome,
\* phone value and complaint list.
C6_NotFoundFlagged ==
    (pc = "done" /\ env.nppes = "empty") => record.status = "Flagged"

\* not found, with every other source in the provider's favour
C6_Witness ==
    /\ pc = "done"
    /\ env.nppes = "empty"
    /\ env.geo = "match"
    /\ reachability_result.medicare_found
    /\ record.complaints = <<>>
    /\ record.status = "Flagged"

\* "NOT FOUND" in text, over the finding texts of the model
ContainsNotFound(text) == text = "NPI NOT FOUND in NPPES registry"

\* C7: a record whose NPI is not found in the registry carries at least one
\* finding with verdict 'fail' whose text contains 'NOT FOUND'.
C7_NotFoundFailFinding ==
    (pc = "done" /\ env.nppes = "empty") =>
        \/ \E i \in DOMAIN record.thoughts :
               /\ record.thoughts[i].verdict = "fail"
               /\ ContainsNotFound(record.thoughts[i].thought)
        \/ \E i \in DOMAIN record.conflicts : ContainsNotFound(record.conflicts[i])

\* C8: when the registry lookup errors or times out, validate_nppes returns
\* s1 = 0.3, exactly one finding (verdict warn) and a lambda contribution of
\* 0; no error outcome of the lookup is handled as 'not found'.
C8_LookupErrorUncertain ==
    (pc # "start" /\ env.nppes \in {"exception", "error_body"}) =>
        /\ nppes_result.s1 = 3 * (ScoreDen \div 10)
        /\ Len(nppes_result.findings) = 1
        /\ Verdict(nppes_result.findings[1]) = "warn"
        /\ nppes_result.lambda_penalty = 0

\* C9: every ValidationResult produced by the validation (judge) stage
\* satisfies is_consistent == (len(conflicts) == 0).
C9_ConsistentIffNoConflicts ==
    pc = "fraud_agent" =>
        (state.validation_result.is_consistent
            <=> Len(state.validation_result.conflicts) = 0)

NumConfirmed ==
    Cardinality({i \in DOMAIN cx.provider_complaints :
                    IsConfirmed(cx.provider_complaints[i], cx.validation_findings)})

NumUnconfirmed == Len(cx.provider_complaints) - NumConfirmed

\* C10: cross_reference_complaints returns lambda_boost = min(0.50, 0.15 *
\* confirmed + 0.08 * unconfirmed) for every complaint list, and a boost of
\* 0 with no narrative when the list is empty.
C10_ComplaintBoost ==
    cx.called =>
        /\ cx.result.lambda_boost =
               Min(BOOST_CAP, CONFIRMED_BOOST * NumConfirmed
                              + UNCONFIRMED_BOOST * NumUnconfirmed)
        /\ Len(cx.result.confirmed) = NumConfirmed
        /\ Len(cx.result.unconfirmed) = NumUnconfirmed
        /\ cx.provider_complaints = <<>> =>
               (cx.result.lambda_boost = 0 /\ cx.result.thoughts = <<>>)

\* confirmed and unconfirmed complaints whose sum passes the cap
C10_Witness ==
    /\ cx.called
    /\ NumConfirmed > 0
    /\ NumUnconfirmed > 0
    /\ CONFIRMED_BOOST * NumConfirmed + UNCONFIRMED_BOOST * NumUnconfirmed > BOOST_CAP
    /\ cx.result.lambda_boost = BOOST_CAP

(***************************************************************************)
(*                compute_decay_probability called on its own              *)
(***************************************************************************)
MaxMonths == 30

\* days between the parsed date and datetime.now(): whole months, the days
\* just past the 6, 12 and 24 month marks, and a date in the future
AgeDays == {30 * m : m \in 0..MaxMonths} \cup {181, 361, 721} \cup {-30}

LastUpdatedValues ==
    {[kind |-> k, age_days |-> 0] : k \in {"empty", "unparseable", "nonstring"}}
    \cup {[kind |-> "date", age_days |-> a] : a \in AgeDays}

DecaySpecialties ==
    {"Internal Medicine", "Family Medicine", "Cardiology", "Dermatology",
     "Psychiatry", "Emergency Medicine", "Urgent Care", "Physician Assistant",
     "Nurse Practitioner", "Chiropractic", "General Surgery", "Sleep Medicine", ""}

DecayStates == {"", "tx", "TX", "NY"}

\* decay_prob = compute_decay_probability(specialty, last_updated, state)
DecayEstimator ==
    /\ ~dc.called
    /\ dc' = [dc EXCEPT !.called = TRUE,
                        !.result = compute_decay_probability(dc.specialty,
                                                             dc.last_updated,
                                                             dc.state)]
    /\ PipelineUnchanged
    /\ UNCHANGED <<ts, cx, state, ba, impact, graph_vars, loop_vars>>

InitDecay ==
    /\ dc \in [called : {FALSE}, specialty : DecaySpecialties,
               last_updated : LastUpdatedValues, state : DecayStates,
               result : {None}]
    /\ ts = NoCall
    /\ cx = NoCall
    /\ PipelineIdle
    /\ state = None
    /\ ba = NoCall
    /\ impact = NoCall
    /\ GraphIdle
    /\ LoopIdle

NextDecay == DecayEstimator

SpecDecay == InitDecay /\ [][NextDecay]_vars

\* C11: for a fixed specialty and state, compute_decay_probability is
\* monotonically non-decreasing in the time since the last update, and its
\* result is always <= 0.99.
C11_DecayMonotone ==
    dc.called =>
        /\ dc.result <= DECAY_CAP
        /\ dc.last_updated.kind = "date" =>
               \A older \in AgeDays :
                   older >= dc.last_updated.age_days =>
                       compute_decay_probability(
                           dc.specialty, [kind |-> "date", age_days |-> older],
                           dc.state) >= dc.result

\* a date past the 12 month mark scored strictly above the fresh value
C11_Witness ==
    /\ dc.called
    /\ dc.last_updated.kind = "date"
    /\ dc.last_updated.age_days > 360
    /\ dc.last_updated.age_days <= 720
    /\ dc.result > compute_decay_probability(
                       dc.specialty, [kind |-> "date", age_days |-> 0], dc.state)

\* base * 1.5 * state_factor for the call, in 1/10000
ModerateDecay ==
    SPECIALTY_DECAY_RATES(dc.specialty) * 15
    * (IF dc.state # "" /\ Upper(dc.state) \in HIGH_MOBILITY_STATES THEN 13 ELSE 10)

\* C12: when the last-updated date cannot be parsed, compute_decay_probability
\* uses recency factor 1.5; an unparseable date is never given the 'fresh'
\* factor 1.0.
C12_UnparseableModerate ==
    (dc.called /\ dc.last_updated.kind \in {"unparseable", "nonstring"}) =>
        /\ RecencyFactor(dc.last_updated) = 15
        /\ 100 * dc.result - 50 <= ModerateDecay
        /\ ModerateDecay <= 100 * dc.result + 50

(***************************************************************************)
(* The record graph: run_validation_workflow invokes orchestrator_graph on *)
(* MainAgentState(job_id, provider_data).  main.py takes the graph from    *)
(* app/graph.py (create_main_graph over the sub_agent_* stubs); routes.py  *)
(* takes it from services/workflow, which wires the nodes of agents/.      *)
(* Risk scores are in tenths of a point, confidences in hundredths, money  *)
(* in cents, cost tiers and ROI multipliers in tenths.                     *)
(***************************************************************************)

\* models.FraudAnalysis
FraudAnalysis(risk_score, risk_level, flagged_patterns) == [risk_score |-> risk_score, risk_level |-> risk_level, flagged_patterns |-> flagged_patterns]

OIG_POINTS == 900
INVALID_NPI_POINTS == 600
INCONSISTENT_POINTS == 250
HIGH_THRESHOLD == 800
MEDIUM_THRESHOLD == 200

\* fraud.py 33-37: the level of a risk score
FraudLevel(risk_score) ==
    IF risk_score >= HIGH_THRESHOLD THEN "HIGH"
    ELSE IF risk_score >= MEDIUM_THRESHOLD THEN "MEDIUM"
    ELSE "LOW"

\* fraud_agent_node with the three rules taking the largest, not the sum
fraud_agent_node_max(s) ==
    LET vr == s.validation_result
        r1 == IF vr # Null /\ vr.oig_excluded THEN OIG_POINTS ELSE 0
        r2 == IF vr # Null /\ ~vr.npi_valid THEN INVALID_NPI_POINTS ELSE 0
        r3 == IF vr # Null /\ ~vr.is_consistent THEN INCONSISTENT_POINTS ELSE 0
        risk_score == Max(r1, Max(r2, r3))
        level == FraudLevel(risk_score)
    IN  [s EXCEPT !.fraud_analysis = FraudAnalysis(risk_score, level, <<>>),
                  !.communication_required = (level = "HIGH")]

\* agents/fraud.py: the state after the update fraud_agent_node returns
fraud_agent_node(s) ==
    LET vr == s.validation_result
        rule1 == vr # Null /\ vr.oig_excluded
        rule2 == vr # Null /\ ~vr.npi_valid
        rule3 == vr # Null /\ ~vr.is_consistent
        risk_score == (IF rule1 THEN OIG_POINTS ELSE 0)
                      + (IF rule2 THEN INVALID_NPI_POINTS ELSE 0)
                      + (IF rule3 THEN INCONSISTENT_POINTS ELSE 0)
        flags == (IF rule1 THEN <<"OIG Exclusion Match">> ELSE <<>>)
                 \o (IF rule2 THEN <<"Invalid NPI">> ELSE <<>>)
                 \o (IF rule3 THEN <<"Data Inconsistency">> ELSE <<>>)
        level == FraudLevel(risk_score)
    IN  [s EXCEPT !.fraud_analysis = FraudAnalysis(risk_score, level, flags),
                  !.communication_required = (level = "HIGH")]

STUB_RISK_SCORE == 155

\* app/graph.py: the state sub_agent_fraud returns
sub_agent_fraud(s) ==
    [s EXCEPT !.fraud_analysis = FraudAnalysis(STUB_RISK_SCORE, "LOW", <<>>)]

\* communicator_agent_node contacting on an invalid NPI as well
communicator_agent_node_eager(s) ==
    s.communication_required
    \/ (s.validation_result # Null /\ ~s.validation_result.npi_valid)

\* agents/communicator.py: whether communicator_agent_node contacts the provider
communicator_agent_node(s) == s.communication_required

\* app/graph.py: whether sub_agent_communicator queues a communication
sub_agent_communicator(s) ==
    s.communication_required
    \/ (s.validation_result # Null /\ ~s.validation_result.npi_valid)

\* analytics.SPECIALTY_VOLATILITY.get(specialty, 0.4), in tenths
SPECIALTY_VOLATILITY(specialty) ==
    CASE specialty = "Surgery" -> 8
      [] specialty = "Radiology" -> 6
      [] specialty = "General Practice" -> 3
      [] specialty = "Dermatology" -> 2
      [] OTHER -> 4

\* analytics.SPECIALTY_COST_TIER.get(specialty, 1.0), in tenths
SPECIALTY_COST_TIER(specialty) ==
    CASE specialty = "Surgery" -> 15
      [] specialty = "Radiology" -> 14
      [] specialty = "Cardiology" -> 13
      [] OTHER -> 10

\* state.provider_data.specialty or "General Practice"
SpecialtyOrDefault(provider_data) ==
    IF provider_data.specialty \in {None, ""} THEN "General Practice"
    ELSE provider_data.specialty

\* analytics.py 45-47: datetime.now() is naive, so subtracting a
\* timezone-aware last_verified raises TypeError
PredictiveRaises(s) == s.provider_data.last_verified = "aware"

TYPE_ERROR == "can't subtract offset-naive and offset-aware datetimes"

BASE_CONFIDENCE == 85
CONFIDENCE_STEP == 10
VOLATILITY_SPLIT == 5

\* agents/analytics.py: the state after the update predictive_agent_node returns
predictive_agent_node(s) ==
    LET volatility == SPECIALTY_VOLATILITY(SpecialtyOrDefault(s.provider_data))
        confidence_score == BASE_CONFIDENCE + (IF volatility < VOLATILITY_SPLIT THEN CONFIDENCE_STEP ELSE -CONFIDENCE_STEP)
    IN  [s EXCEPT !.degradation_prediction = [confidence_score |-> confidence_score]]

\* app/graph.py: the state sub_agent_predictive returns
sub_agent_predictive(s) ==
    [s EXCEPT !.degradation_prediction = [confidence_score |-> BASE_CONFIDENCE]]

\* models.BusinessImpact
BusinessImpact(estimated_savings, roi_multiplier) == [estimated_savings |-> estimated_savings, roi_multiplier |-> roi_multiplier]

MANUAL_COST == 5000
AUTO_COST == 50
CLAIM_DENIAL_COST == 50000
HIGH_FRAUD_SAVINGS == 300000
MEDIUM_FRAUD_SAVINGS == 15000

\* agents/analytics.py: the state after the update business_agent_node returns
business_agent_node(s) ==
    LET tier_multiplier == SPECIALTY_COST_TIER(SpecialtyOrDefault(s.provider_data))
        manual_cost == (MANUAL_COST * tier_multiplier) \div 10
        claim_denial_cost == (CLAIM_DENIAL_COST * tier_multiplier) \div 10
        vr == s.validation_result
        prevention_savings == IF vr # Null /\ (~vr.npi_valid \/ ~vr.is_consistent) THEN claim_denial_cost ELSE 0
        fraud_savings ==
            IF s.fraud_analysis = Null THEN 0
            ELSE IF s.fraud_analysis.risk_level = "HIGH" THEN HIGH_FRAUD_SAVINGS
            ELSE IF s.fraud_analysis.risk_level = "MEDIUM" THEN MEDIUM_FRAUD_SAVINGS
            ELSE 0
        total_estimated_savings == (manual_cost - AUTO_COST) + prevention_savings + fraud_savings
        roi_multiplier == (total_estimated_savings * 10) \div AUTO_COST
    IN  [s EXCEPT !.business_impact = BusinessImpact(total_estimated_savings, roi_multiplier)]

STUB_SAVINGS == 15000
STUB_ROI == 35

\* app/graph.py: the state sub_agent_business returns
sub_agent_business(s) ==
    [s EXCEPT !.business_impact = BusinessImpact(STUB_SAVINGS, STUB_ROI)]

STUB_NPI == "1234567890"

\* app/graph.py: the state sub_agent_parser returns
sub_agent_parser(s) ==
    IF s.provider_data.npi \in {None, ""}
    THEN [s EXCEPT !.provider_data.npi = STUB_NPI]
    ELSE s

\* agents/parser.py: the state parser_agent_node returns when the regular
\* expressions extract doc from the text of the file
parser_agent_node(s, doc) == [s EXCEPT !.parsed_data = doc]

Graphs == {"app.graph", "services.workflow"}

END == "__end__"

\* create_main_graph: workflow.add_edge(a, b) as <<a, b>>
MainGraphEdges ==
    {<<"parser_agent", "validation_agent">>,
     <<"validation_agent", "fraud_agent">>,
     <<"fraud_agent", "predictive_agent">>,
     <<"fraud_agent", "business_agent">>,
     <<"predictive_agent", "communicator_agent">>,
     <<"business_agent", "communicator_agent">>,
     <<"communicator_agent", END>>}

\* services/workflow: the strict sequence of the stages of agents/
WorkflowEdges ==
    {<<"parser_agent", "validation_agent">>,
     <<"validation_agent", "fraud_agent">>,
     <<"fraud_agent", "predictive_agent">>,
     <<"predictive_agent", "business_agent">>,
     <<"business_agent", "communicator_agent">>,
     <<"communicator_agent", END>>}

Edges(g) == IF g = "app.graph" THEN MainGraphEdges ELSE WorkflowEdges

StageNodes == {e[1] : e \in MainGraphEdges}

\* the nodes a finished node triggers for the next superstep
Successors(g, n) == {e[2] : e \in {d \in Edges(g) : d[1] = n}} \ {END}

\* MainAgentState(job_id=job_id, provider_data=provider_data)
MainAgentState(provider_data) ==
    [provider_data |-> provider_data, parsed_data |-> Null,
     validation_result |-> Null, fraud_analysis |-> Null,
     degradation_prediction |-> Null, business_impact |-> Null,
     errors |-> <<>>, communication_required |-> FALSE]

WorkflowSpecialties == {None, "General Practice", "Surgery", "Cardiology"}

\* last_verified: absent, a naive datetime, a timezone-aware datetime
LastVerifiedValues == {None, "naive", "aware"}

WorkflowProviders ==
    [npi : JudgeNpis, first_name : {"John", None}, last_name : {"Smith"},
     specialty : WorkflowSpecialties, last_verified : LastVerifiedValues]

WorkflowUnchanged ==
    UNCHANGED <<ts, cx, csv_row, env, nppes_result, reachability_result, record, dc, ba, impact, loop_vars>>

\* one node of the current superstep finishes: when it was the last one, the
\* nodes the superstep triggered become the next superstep
NodeDone(n) ==
    LET rest == active \ {n}
        trig == triggered \cup Successors(graph, n)
    IN  /\ active' = (IF rest = {} THEN trig ELSE rest)
        /\ triggered' = (IF rest = {} THEN {} ELSE trig)
        /\ UNCHANGED <<pc, graph, job_store>>
        /\ WorkflowUnchanged

Runs(g, n) == pc = "ainvoke" /\ graph = g /\ n \in active

SubAgentParser ==
    /\ Runs("app.graph", "parser_agent")
    /\ state' = sub_agent_parser(state)
    /\ UNCHANGED contacted
    /\ NodeDone("parser_agent")

ParserAgentNode ==
    /\ Runs("services.workflow", "parser_agent")
    /\ \E doc \in ParsedDocs : state' = parser_agent_node(state, doc)
    /\ UNCHANGED contacted
    /\ NodeDone("parser_agent")

SubAgentValidationStage ==
    /\ Runs("app.graph", "validation_agent")
    /\ state' = sub_agent_validation(state)
    /\ UNCHANGED contacted
    /\ NodeDone("validation_agent")

ValidationAgentStage ==
    /\ Runs("services.workflow", "validation_agent")
    /\ \E npi_result \in NpiResults(state.provider_data) :
           state' = validation_agent_node(state, npi_result)
    /\ UNCHANGED contacted
    /\ NodeDone("validation_agent")

SubAgentFraud ==
    /\ Runs("app.graph", "fraud_agent")
    /\ state' = sub_agent_fraud(state)
    /\ UNCHANGED contacted
    /\ NodeDone("fraud_agent")

FraudAgentNode ==
    /\ Runs("services.workflow", "fraud_agent")
    /\ state' = fraud_agent_node(state)
    /\ UNCHANGED contacted
    /\ NodeDone("fraud_agent")

SubAgentPredictive ==
    /\ Runs("app.graph", "predictive_agent")
    /\ state' = sub_agent_predictive(state)
    /\ UNCHANGED contacted
    /\ NodeDone("predictive_agent")

PredictiveAgentNode ==
    /\ Runs("services.workflow", "predictive_agent")
    /\ ~PredictiveRaises(state)
    /\ state' = predictive_agent_node(state)
    /\ UNCHANGED contacted
    /\ NodeDone("predictive_agent")

SubAgentBusiness ==
    /\ Runs("app.graph", "business_agent")
    /\ state' = sub_agent_business(state)
    /\ UNCHANGED contacted
    /\ NodeDone("business_agent")

BusinessAgentNode ==
    /\ Runs("services.workflow", "business_agent")
    /\ state' = business_agent_node(state)
    /\ UNCHANGED contacted
    /\ NodeDone("business_agent")

SubAgentCommunicator ==
    /\ Runs("app.graph", "communicator_agent")
    /\ contacted' = sub_agent_communicator(state)
    /\ UNCHANGED state
    /\ NodeDone("communicator_agent")

CommunicatorAgentNode ==
    /\ Runs("services.workflow", "communicator_agent")
    /\ contacted' = communicator_agent_node(state)
    /\ UNCHANGED state
    /\ NodeDone("communicator_agent")

\* a Python dict with the keys of kv; values of the model carry their class
\* only where a handler asks for it: a dict is tagged, a MainAgentState
\* object is the untagged record MainAgentState(...) builds
dict(kv) == [k \in DOMAIN kv \cup {"class"} |-> IF k = "class" THEN "dict" ELSE kv[k]]

isinstance(v, cls) == IF "class" \in DOMAIN v THEN v["class"] = cls ELSE cls = "MainAgentState"

\* run_validation_workflow, try branch: ainvoke returns the final state as
\* the dict of the graph's channel values (demo_flow.py reads it by key)
WorkflowCompleted ==
    /\ pc = "ainvoke"
    /\ active = {}
    /\ job_store' = dict(state)
    /\ pc' = "completed"
    /\ UNCHANGED <<state, graph, active, triggered, contacted>>
    /\ WorkflowUnchanged

\* run_validation_workflow, except branch: predictive_agent_node raised out
\* of ainvoke; initial_state with str(e) appended is what gets stored
WorkflowFailed ==
    /\ Runs("services.workflow", "predictive_agent")
    /\ PredictiveRaises(state)
    /\ job_store' = [MainAgentState(job_store.provider) EXCEPT !.errors = Append(@, TYPE_ERROR)]
    /\ pc' = "failed"
    /\ active' = {}
    /\ triggered' = {}
    /\ UNCHANGED <<state, graph, contacted>>
    /\ WorkflowUnchanged

\* ingest: a job in "processing" whose background task has built
\* initial_state and entered orchestrator_graph.ainvoke
InitWorkflow ==
    /\ ts = NoCall
    /\ cx = NoCall
    /\ dc = NoCall
    /\ ba = NoCall
    /\ impact = NoCall
    /\ csv_row = None
    /\ env = NoEnv
    /\ nppes_result = None
    /\ reachability_result = None
    /\ record = None
    /\ graph \in Graphs
    /\ \E provider \in WorkflowProviders :
          /\ job_store = dict([status |-> "processing", provider |-> provider])
          /\ state = MainAgentState(provider)
    /\ pc = "ainvoke"
    /\ active = {"parser_agent"}
    /\ triggered = {}
    /\ contacted = FALSE
    /\ LoopIdle

NextWorkflow ==
    \/ SubAgentParser \/ ParserAgentNode
    \/ SubAgentValidationStage \/ ValidationAgentStage
    \/ SubAgentFraud \/ FraudAgentNode
    \/ SubAgentPredictive \/ PredictiveAgentNode
    \/ SubAgentBusiness \/ BusinessAgentNode
    \/ SubAgentCommunicator \/ CommunicatorAgentNode
    \/ WorkflowCompleted \/ WorkflowFailed

SpecWorkflow == InitWorkflow /\ [][NextWorkflow]_vars

C14_ContactOnlyWhenRequired ==
    /\ state.fraud_analysis # Null =>
           (state.communication_required <=> state.fraud_analysis.risk_level = "HIGH")
    /\ contacted => (state.fraud_analysis # Null /\ state.communication_required)
    /\ "communicator_agent" \in active => state.fraud_analysis # Null

\* the communicator has contacted the provider of a HIGH-risk record
C14_Witness ==
    /\ pc = "completed"
    /\ contacted
    /\ job_store.communication_required
    /\ job_store.fraud_analysis.risk_level = "HIGH"

\* a MEDIUM-risk record with an invalid NPI passes the communicator untouched
C14_MediumNotContacted ==
    (/\ pc = "completed"
     /\ job_store.fraud_analysis.risk_level = "MEDIUM"
     /\ ~job_store.validation_result.npi_valid) => ~contacted

(***************************************************************************)
(* agents/batch_business.py: BatchBusinessAgent.analyze_batch over the job *)
(* rows of a batch.  Risk scores and percentages are in tenths, savings in *)
(* cents.                                                                  *)
(***************************************************************************)

\* what a row's result_state column can hold: nothing, a string (with what
\* json.loads makes of it), a dict, or another Python value such as a list
Missing == [type |-> "NoneType"]
ListValue == [type |-> "list"]
JsonOf(v) == [type |-> "str", loads |-> v]
Unparseable == JsonOf([type |-> "JSONDecodeError"])
DictState(fraud_analysis, business_impact, validation_result) == [type |-> "dict", fraud_analysis |-> fraud_analysis, business_impact |-> business_impact, validation_result |-> validation_result]

Skip == [type |-> "skip"]

\* lines 22-34: the state a row contributes, Skip for a row that is passed over
RowState(job) ==
    LET st == job.result_state
    IN  IF st.type = "NoneType" THEN Skip
        ELSE IF st.type = "str"
             THEN (IF st.loads.type = "JSONDecodeError" THEN Skip ELSE st.loads)
        ELSE IF st.type # "dict" THEN Skip
        ELSE st

\* lines 37-48: state.get(...) on a value json.loads returned that is not a
\* dict raises AttributeError
RowRaises(job) == RowState(job).type \notin {"skip", "dict"}

\* the distinct elements of s in the order of their first occurrence
RECURSIVE FirstOccurrences(_)
FirstOccurrences(s) ==
    IF s = <<>> THEN <<>>
    ELSE LET init == FirstOccurrences(SubSeq(s, 1, Len(s) - 1))
             last == s[Len(s)]
         IN  IF \E i \in DOMAIN init : init[i] = last THEN init ELSE Append(init, last)

Occurrences(s, x) == Cardinality({i \in DOMAIN s : s[i] = x})

\* sorted(...) without reverse=True: the least frequent descriptions first
SortedPatternsAscending(descs) ==
    LET keys == FirstOccurrences(descs)
        Before(i, j) == \/ Occurrences(descs, keys[i]) < Occurrences(descs, keys[j])
                        \/ (Occurrences(descs, keys[i]) = Occurrences(descs, keys[j]) /\ i < j)
        Rank(j) == 1 + Cardinality({i \in DOMAIN keys : Before(i, j)})
    IN  [r \in DOMAIN keys |-> keys[CHOOSE j \in DOMAIN keys : Rank(j) = r]]

\* sorted(discrepancy_types.items(), key=count, reverse=True): the sort is
\* stable, so equal counts keep the dict's insertion order
SortedPatterns(descs) ==
    LET keys == FirstOccurrences(descs)
        Before(i, j) == \/ Occurrences(descs, keys[i]) > Occurrences(descs, keys[j])
                        \/ (Occurrences(descs, keys[i]) = Occurrences(descs, keys[j]) /\ i < j)
        Rank(j) == 1 + Cardinality({i \in DOMAIN keys : Before(i, j)})
    IN  [r \in DOMAIN keys |-> keys[CHOOSE j \in DOMAIN keys : Rank(j) = r]]

\* c.get("description", "Unknown Issue")
DescriptionOf(c) == IF "description" \in DOMAIN c THEN c.description ELSE "Unknown Issue"

TOP_PATTERNS == 3
RISK_CAP == 1000

\* high_risk_count / len(jobs_data) > 0.3 with >= in place of >
ClusterRiskAtThreshold(high_risk_count, n_jobs) == n_jobs > 0 /\ 10 * high_risk_count >= 3 * n_jobs

\* line 61: jobs_data and (high_risk_count / len(jobs_data)) > 0.3
ClusterRisk(high_risk_count, n_jobs) == n_jobs > 0 /\ 10 * high_risk_count > 3 * n_jobs

\* analyze_batch(jobs_data): the set of results the call can produce
analyze_batch(jobs_data) ==
    IF \E i \in DOMAIN jobs_data : RowRaises(jobs_data[i])
    THEN {[raised |-> TRUE, error |-> "AttributeError"]}
    ELSE
    LET states == SelectSeq([i \in DOMAIN jobs_data |-> RowState(jobs_data[i])], LAMBDA st : st.type = "dict")
        total_savings == SumSeq([i \in DOMAIN states |-> IF states[i].business_impact = Null THEN 0 ELSE states[i].business_impact.estimated_savings])
        scored == SelectSeq(states, LAMBDA st : st.fraud_analysis # Null)
        risk_sum == SumSeq([i \in DOMAIN scored |-> scored[i].fraud_analysis.risk_score])
        high_risk_count == Cardinality({i \in DOMAIN scored : scored[i].fraud_analysis.risk_level = "HIGH"})
        descs == Concat([i \in DOMAIN states |->
                    IF states[i].validation_result # Null /\ ~states[i].validation_result.is_consistent
                    THEN [k \in DOMAIN states[i].validation_result.conflicts |-> DescriptionOf(states[i].validation_result.conflicts[k])]
                    ELSE <<>>])
        \* avg_risk * portfolio_risk_modifier as num / den tenths
        num == risk_sum * (IF ClusterRisk(high_risk_count, Len(jobs_data)) THEN 3 ELSE 2)
        den == 2 * Len(scored)
        portfolio == IF Len(scored) = 0 THEN {0}
                     ELSE IF num > RISK_CAP * den THEN {RISK_CAP}
                     ELSE Round1(num, den)
        percentage == IF jobs_data = <<>> THEN {0}
                      ELSE Round1(1000 * high_risk_count, Len(jobs_data))
    IN  {[raised |-> FALSE,
          total_estimated_savings |-> total_savings,
          portfolio_risk_score |-> p,
          high_risk_percentage |-> h,
          top_discrepancy_patterns |-> Take(SortedPatterns(descs), TOP_PATTERNS)] :
            p \in portfolio, h \in percentage}

MaxBatch == 10

Conflict(description) == [description |-> description]

\* The kinds of job row a batch is drawn from: stored final states of the
\* record graph (as the JSON text the jobs table keeps, or as a dict), rows
\* still without a result, and result_state values that are not a state.
BatchRowTypes ==
    << [result_state |-> JsonOf(DictState(FraudAnalysis(850, "HIGH", <<>>), BusinessImpact(354950, 70990),
                                          [is_consistent |-> FALSE, conflicts |-> <<Conflict("Name mismatch")>>]))],
       [result_state |-> JsonOf(DictState(FraudAnalysis(0, "LOW", <<>>), BusinessImpact(4950, 990),
                                          [is_consistent |-> TRUE, conflicts |-> <<>>]))],
       [result_state |-> DictState(FraudAnalysis(600, "MEDIUM", <<>>), BusinessImpact(69950, 13990),
                                   [is_consistent |-> TRUE, conflicts |-> <<>>])],
       [result_state |-> DictState(FraudAnalysis(1750, "HIGH", <<>>), BusinessImpact(354950, 70990),
                                   [is_consistent |-> FALSE,
                                    conflicts |-> <<Conflict("NPI mismatch between entry and document."),
                                                    Conflict("Name mismatch")>>])],
       [result_state |-> JsonOf(DictState(FraudAnalysis(STUB_RISK_SCORE, "LOW", <<>>), BusinessImpact(STUB_SAVINGS, STUB_ROI),
                                          [is_consistent |-> FALSE, conflicts |-> <<>>]))],
       [result_state |-> JsonOf(DictState(Null, Null, Null))],
       [result_state |-> Missing],
       [result_state |-> Unparseable],
       [result_state |-> ListValue],
       [result_state |-> JsonOf(ListValue)] >>

\* how many rows of each kind a batch holds at most
MaxOfType == <<5, 7, 2, 2, 1, 2, 2, 1, 1, 1>>

\* the vectors of row counts, one per kind, of the batches of at most n rows
RECURSIVE CountVectors(_, _)
CountVectors(k, n) ==
    IF k = 0 THEN {<<>>}
    ELSE {Append(v, c) : v \in CountVectors(k - 1, n), c \in 0..Min(n, MaxOfType[k])}

RECURSIVE Repeat(_, _)
Repeat(x, n) == IF n = 0 THEN <<>> ELSE <<x>> \o Repeat(x, n - 1)

BatchOf(counts) == Concat([k \in DOMAIN counts |-> Repeat(BatchRowTypes[k], counts[k])])

Batches ==
    {BatchOf(v) : v \in {w \in CountVectors(Len(BatchRowTypes), MaxBatch) : SumSeq(w) <= MaxBatch}}

BatchAnalysis ==
    /\ ~ba.called
    /\ \E result \in analyze_batch(ba.jobs_data) :
           ba' = [ba EXCEPT !.called = TRUE, !.result = result]
    /\ PipelineUnchanged
    /\ UNCHANGED <<ts, cx, state, dc, impact, graph_vars, loop_vars>>

InitBatch ==
    /\ ba \in [called : {FALSE}, jobs_data : Batches, result : {Null}]
    /\ impact = NoCall
    /\ ts = NoCall
    /\ cx = NoCall
    /\ dc = NoCall
    /\ PipelineIdle
    /\ state = None
    /\ GraphIdle
    /\ LoopIdle

NextBatch == BatchAnalysis

SpecBatch == InitBatch /\ [][NextBatch]_vars

HighRows(jobs) ==
    {i \in DOMAIN jobs :
        /\ RowState(jobs[i]).type = "dict"
        /\ RowState(jobs[i]).fraud_analysis # Null
        /\ RowState(jobs[i]).fraud_analysis.risk_level = "HIGH"}

ScoredRows(jobs) ==
    {i \in DOMAIN jobs :
        /\ RowState(jobs[i]).type = "dict"
        /\ RowState(jobs[i]).fraud_analysis # Null}

RECURSIVE SumOver(_, _)
SumOver(f, S) ==
    IF S = {} THEN 0 ELSE LET x == CHOOSE x \in S : TRUE IN f[x] + SumOver(f, S \ {x})

RiskSum(jobs) ==
    SumOver([i \in ScoredRows(jobs) |-> RowState(jobs[i]).fraud_analysis.risk_score], ScoredRows(jobs))

Returned == ba.called /\ ~ba.result.raised

\* C15 as stated: analyze_batch returns portfolio_risk_score = min(100,
\* avg_risk * 1.5) when the fraction of the batch's records that are HIGH risk
\* is strictly greater than 0.30, and portfolio_risk_score = avg_risk
\* otherwise, avg_risk being the mean fraud risk_score of the records.
C15_PortfolioExact ==
    (Returned /\ ScoredRows(ba.jobs_data) # {}) =>
        LET jobs == ba.jobs_data
            n == Cardinality(ScoredRows(jobs))
            p == ba.result.portfolio_risk_score
        IN  IF 10 * Cardinality(HighRows(jobs)) > 3 * Len(jobs)
            THEN \/ (2 * n * p = 3 * RiskSum(jobs) /\ p <= 1000)
                 \/ (p = 1000 /\ 3 * RiskSum(jobs) >= 2 * n * 1000)
            ELSE n * p = RiskSum(jobs)

\* C15: analyze_batch returns portfolio_risk_score = min(100, avg_risk * m)
\* rounded to one decimal, where m is 1.5 when the fraction of the batch's
\* rows that are HIGH risk is strictly greater than 0.30 and 1 otherwise (4
\* HIGH of 10 applies the multiplier, exactly 3 of 10 does not), and avg_risk
\* is the mean risk_score of the rows that carry a fraud analysis.
C15_PortfolioRounded ==
    (Returned /\ ScoredRows(ba.jobs_data) # {}) =>
        LET jobs == ba.jobs_data
            n == Cardinality(ScoredRows(jobs))
            p == ba.result.portfolio_risk_score
            m2 == IF 10 * Cardinality(HighRows(jobs)) > 3 * Len(jobs) THEN 3 ELSE 2
            x == m2 * RiskSum(jobs)
        IN  IF x >= 2 * n * 1000 THEN p = 1000
            ELSE /\ 2 * (2 * n * p - x) <= 2 * n
                 /\ 2 * (x - 2 * n * p) <= 2 * n

\* a batch of 10 rows with 4 HIGH has been scored with the multiplier, and
\* the result is not the capped one
C15_Witness ==
    /\ Returned
    /\ Len(ba.jobs_data) = 10
    /\ Cardinality(HighRows(ba.jobs_data)) = 4
    /\ Cardinality(ScoredRows(ba.jobs_data)) = 10
    /\ ba.result.portfolio_risk_score < 1000
    /\ 2 * ba.result.portfolio_risk_score = 3 * (RiskSum(ba.jobs_data) \div 10)

\* a batch of 10 rows with exactly 3 HIGH has been scored without it
C15_WitnessThreeOfTen ==
    /\ Returned
    /\ Len(ba.jobs_data) = 10
    /\ Cardinality(HighRows(ba.jobs_data)) = 3
    /\ Cardinality(ScoredRows(ba.jobs_data)) = 10
    /\ 10 * ba.result.portfolio_risk_score = RiskSum(ba.jobs_data)

\* C20 as stated: analyze_batch returns a batch summary without raising for
\* every list of job rows, including the empty list, rows with a missing or
\* unparseable result_state, and batches in which no record has fraud or
\* impact data.
C20_NeverRaises == ba.called => ~ba.result.raised

\* the part of C20 that holds: without a row whose result_state is JSON text
\* of something other than an object, the call returns a summary
C20_ReturnsUnlessJsonNonDict ==
    (ba.called /\ \A i \in DOMAIN ba.jobs_data : ~RowRaises(ba.jobs_data[i]))
        => ~ba.result.raised

\* the empty list, and a batch of missing and unparseable rows only, return
\* the all-zero summary
C20_EmptySummaries ==
    (ba.called /\ \A i \in DOMAIN ba.jobs_data : RowState(ba.jobs_data[i]) = Skip) =>
        /\ ~ba.result.raised
        /\ ba.result.portfolio_risk_score = 0
        /\ ba.result.total_estimated_savings = 0

\* C16 as stated: the per-record stage sequence is linear with no branching
\* or merge points: every stage has exactly one successor, so the predictive
\* stage and the business-impact stage of one record are never enabled at the
\* same time on the shared record state.
C16_LinearStages ==
    /\ \A n \in StageNodes : Cardinality({e \in Edges(graph) : e[1] = n}) = 1
    /\ ~({"predictive_agent", "business_agent"} \subseteq active)

C17_FailedStoresInitialState ==
    pc = "failed" =>
        job_store = [MainAgentState(state.provider_data) EXCEPT !.errors = <<TYPE_ERROR>>]

(***************************************************************************)
(* api/routes.py: the batch loops of generate_historical_data (no cached   *)
(* records in the DB) and upload_csv, on the fast path (run_efficiently).  *)
(* Risk scores are in tenths, decay probabilities and boosts in hundredths.*)
(***************************************************************************)
PROVIDER_LIMIT == 50

MaxRows == 2

NpiA == "1234567890"
NpiB == "9900000001"
NpiFiller == "1100000001"
LoopNpis == {NpiA, NpiB, NpiFiller}

\* a thought as analyze_provider returns it: a dict, not an AgentThought
ThoughtDict(agentName, text, verdict) == [agentName |-> agentName, thought |-> text, verdict |-> verdict, dict |-> TRUE]

\* str(t) of a thought dict
ThoughtRepr(t) == "{'agentName': '" \o t.agentName \o "', 'thought': '" \o t.thought \o "'}"

\* t.thought if hasattr(t, 'thought') else str(t)
ThoughtText(t) == IF "dict" \in DOMAIN t THEN ThoughtRepr(t) ELSE t.thought

\* validation.py 97: data["results"][0] on an answer that counts a result
\* and lists none
INDEX_ERROR == "list index out of range"

\* what detailed_agent_service.analyze_provider does for a row: the dict of
\* the fast path, or an exception
AnalysisOutcomes ==
    {[raises |-> FALSE, risk_score |-> 120, discrepancies |-> <<>>, fraud_probability |-> 10,
      agent_thoughts |-> <<ThoughtDict("Validation Agent", "Name match", "pass")>>],
     [raises |-> FALSE, risk_score |-> 360, discrepancies |-> <<"Name MISMATCH">>, fraud_probability |-> 25,
      agent_thoughts |-> <<ThoughtDict("Validation Agent", "Name MISMATCH", "fail")>>],
     [raises |-> FALSE, risk_score |-> 900, discrepancies |-> <<"NPI NOT FOUND in NPPES registry">>, fraud_probability |-> 50,
      agent_thoughts |-> <<ThoughtDict("Validation Agent", "NPI NOT FOUND in NPPES registry", "fail")>>],
     [raises |-> TRUE, error |-> INDEX_ERROR]}

CleanOutcome == CHOOSE o \in AnalysisOutcomes : ~o.raises /\ o.risk_score = 120

FALLBACK_RISK == 500
FALLBACK_DECAY == 50
FLAGGED_ABOVE == 700
REVIEW_ABOVE == 350

\* the try block: the result dict of a row that analyze_provider answered
ResultOf(row, res) ==
    [npi |-> row.NPI,
     risk_score |-> res.risk_score,
     decay_prob |-> res.fraud_probability,
     status |-> IF res.risk_score > FLAGGED_ABOVE THEN "Flagged"
                ELSE IF res.risk_score > REVIEW_ABOVE THEN "Review"
                ELSE "Pending",
     conflicts |-> res.discrepancies,
     thoughts |-> res.agent_thoughts]

\* FallbackOf without the error status: the failed row is left 'Pending'
FallbackOfPending(row, e) ==
    [npi |-> row.NPI,
     risk_score |-> FALLBACK_RISK,
     decay_prob |-> FALLBACK_DECAY,
     status |-> "Pending",
     conflicts |-> <<"Validation error: " \o e>>,
     thoughts |-> <<Thought("Validation Agent", "API validation failed: " \o e, "warn")>>]

\* the except block: the fallback record of a row whose validation raised
FallbackOf(row, e) ==
    [npi |-> row.NPI,
     risk_score |-> FALLBACK_RISK,
     decay_prob |-> FALLBACK_DECAY,
     status |-> "Review",
     conflicts |-> <<"Validation error: " \o e>>,
     thoughts |-> <<Thought("Validation Agent", "API validation failed: " \o e, "warn")>>]

\* all_findings: the thought texts, then the conflicts
AllFindings(result) ==
    [i \in DOMAIN result.thoughts |-> Finding("", ThoughtText(result.thoughts[i]))]
    \o [i \in DOMAIN result.conflicts |-> Finding("", result.conflicts[i])]

\* the complaint cross-reference of the loop body: the results it can leave
WithComplaints(result, provider_complaints) ==
    IF provider_complaints = <<>> THEN {result}
    ELSE LET complaint_result == cross_reference_complaints(provider_complaints, AllFindings(result))
             boost == complaint_result.lambda_boost
             current_trust == 1000 - result.risk_score
             risks == Round1(100000 - current_trust * (100 - boost), 100)
         IN  {[result EXCEPT
                 !.risk_score = IF boost > 0 THEN Max(0, Min(1000, r)) ELSE @,
                 !.status = IF boost > 0 /\ Max(0, Min(1000, r)) > FLAGGED_ABOVE THEN "Flagged"
                            ELSE IF boost > 0 /\ Max(0, Min(1000, r)) > REVIEW_ABOVE THEN "Review"
                            ELSE @,
                 !.thoughts = @ \o complaint_result.thoughts] : r \in risks}

\* upload_csv only: if result["status"] == "Verified": result["status"] = "Pending"
ForcePending(h, result) ==
    IF h = "upload_csv" /\ result.status = "Verified" THEN [result EXCEPT !.status = "Pending"] ELSE result

\* FrontendProviderRecord(id=f"VERA-{idx + 1}" / f"UPLOAD-{idx + 1}", ...)
RecordOf(h, i, result) ==
    [id |-> <<IF h = "upload_csv" THEN "UPLOAD" ELSE "VERA", i + 1>>,
     npi |-> result.npi,
     riskScore |-> result.risk_score,
     decayProb |-> result.decay_prob,
     status |-> result.status,
     conflicts |-> result.conflicts,
     agentThoughts |-> result.thoughts]

\* csv_rows = csv_rows[:PROVIDER_LIMIT]
csv_rows == Take(file_rows, PROVIDER_LIMIT)

ComplaintsOf(npi) == IF npi \in DOMAIN complaint_store THEN complaint_store[npi] ELSE <<>>

LoopUnchanged ==
    /\ UNCHANGED <<csv_row, env, nppes_result, reachability_result, record>>
    /\ UNCHANGED <<ts, cx, state, dc, ba, impact, graph_vars>>
    /\ UNCHANGED <<handler, file_rows, outcomes, complaint_store>>

\* the loop body up to records.append(rec), for a row analyze_provider answers
ValidateRow ==
    /\ pc = "loop"
    /\ idx < Len(csv_rows)
    /\ LET row == csv_rows[idx + 1]
           res == outcomes[row.NPI]
       IN  /\ ~res.raises
           /\ \E result \in WithComplaints(ResultOf(row, res), ComplaintsOf(row.NPI)) :
                  records' = Append(records, RecordOf(handler, idx, ForcePending(handler, result)))
    /\ pc' = "save_provider"
    /\ UNCHANGED <<idx, response>>
    /\ LoopUnchanged

\* the loop body up to records.append(rec), for a row whose validation raises
ValidateRowFails ==
    /\ pc = "loop"
    /\ idx < Len(csv_rows)
    /\ LET row == csv_rows[idx + 1]
           res == outcomes[row.NPI]
       IN  /\ res.raises
           /\ \E result \in WithComplaints(FallbackOf(row, res.error), ComplaintsOf(row.NPI)) :
                  records' = Append(records, RecordOf(handler, idx, ForcePending(handler, result)))
    /\ pc' = "save_provider"
    /\ UNCHANGED <<idx, response>>
    /\ LoopUnchanged

\* save_provider(rec) and the pacing sleep: on to the next row
SaveProvider ==
    /\ pc = "save_provider"
    /\ idx' = idx + 1
    /\ pc' = "loop"
    /\ UNCHANGED <<records, response>>
    /\ LoopUnchanged

\* save_provider(rec) raises sqlite3.Error (the INSERT or the commit fails):
\* nothing around it catches, the request ends with a server error
SaveProviderRaises ==
    /\ pc = "save_provider"
    /\ pc' = "raised"
    /\ response' = [status |-> 500]
    /\ UNCHANGED <<idx, records>>
    /\ LoopUnchanged

\* after the loop: the aggregates and the AnalysisResult
BatchReturns ==
    /\ pc = "loop"
    /\ idx = Len(csv_rows)
    /\ ~(handler = "upload_csv" /\ csv_rows = <<>>)
    /\ response' = [status |-> 200,
                    records |-> records,
                    discrepancies |-> Cardinality({i \in DOMAIN records : records[i].status # "Verified"}),
                    roi |-> 300 * Cardinality({i \in DOMAIN records : records[i].status = "Verified"})]
    /\ pc' = "returned"
    /\ UNCHANGED <<idx, records>>
    /\ LoopUnchanged

MaxOnFile == 6

\* what the complaint directory holds for the first provider
ComplaintsOnFile ==
    {<<>>, <<Complaint("general")>>, <<Complaint("name"), Complaint("phone")>>}
    \cup {[i \in 1..n |-> Complaint("general")] : n \in (MaxOnFile - 1)..MaxOnFile}

\* the rows of the file: a few rows of the two providers, then filler rows up
\* to and beyond the provider limit
FileRows ==
    {[i \in DOMAIN f |-> [NPI |-> f[i]]] \o Repeat([NPI |-> NpiFiller], k) :
        f \in UNION {[1..m -> {NpiA, NpiB}] : m \in 0..MaxRows}, k \in {0, PROVIDER_LIMIT - 1, PROVIDER_LIMIT}}

\* upload_csv: an upload without rows is refused before the loop
RejectEmptyUpload ==
    /\ pc = "loop"
    /\ handler = "upload_csv"
    /\ csv_rows = <<>>
    /\ response' = [status |-> 400]
    /\ pc' = "raised"
    /\ UNCHANGED <<idx, records>>
    /\ LoopUnchanged

InitLoop ==
    /\ ts = NoCall
    /\ cx = NoCall
    /\ dc = NoCall
    /\ ba = NoCall
    /\ impact = NoCall
    /\ csv_row = None
    /\ env = NoEnv
    /\ nppes_result = None
    /\ reachability_result = None
    /\ record = None
    /\ state = None
    /\ GraphIdle
    /\ handler \in {"generate_historical_data", "upload_csv"}
    /\ file_rows \in FileRows
    /\ \E a \in AnalysisOutcomes, b \in {o \in AnalysisOutcomes : o.raises \/ o = CleanOutcome} :
           outcomes = [n \in LoopNpis |-> IF n = NpiA THEN a ELSE IF n = NpiB THEN b ELSE CleanOutcome]
    /\ \E c \in ComplaintsOnFile :
           complaint_store = IF c = <<>> THEN <<>> ELSE [n \in {NpiA} |-> c]
    /\ pc = "loop"
    /\ idx = 0
    /\ records = <<>>
    /\ response = None

NextLoop ==
    \/ ValidateRow \/ ValidateRowFails
    \/ SaveProvider \/ SaveProviderRaises
    \/ RejectEmptyUpload \/ BatchReturns

SpecLoop == InitLoop /\ [][NextLoop]_vars

\* the rows of the batch whose validation raised
FailedRows == {i \in DOMAIN csv_rows : outcomes[csv_rows[i].NPI].raises}

\* C18 as stated: no exception raised while processing one record escapes
\* the batch loop: every input row (up to the provider limit) yields exactly
\* one record in the batch output, and the rows after a failed row are still
\* processed.
C18_NoExceptionEscapes ==
    /\ pc # "raised" \/ (handler = "upload_csv" /\ csv_rows = <<>>)
    /\ pc = "returned" =>
          /\ Len(response.records) = Min(Len(file_rows), PROVIDER_LIMIT)
          /\ \A i \in DOMAIN response.records : response.records[i].npi = csv_rows[i].NPI

\* the part of C18 that holds: an exception of the validation call itself is
\* caught, and a batch whose saves succeed returns one record per row
C18_ValidationErrorsContained ==
    pc = "returned" =>
        /\ Len(response.records) = Min(Len(file_rows), PROVIDER_LIMIT)
        /\ \A i \in DOMAIN response.records :
              /\ response.records[i].npi = csv_rows[i].NPI
              /\ response.records[i].id[2] = i

\* a batch with a failed row followed by other rows has returned
C18_Witness ==
    /\ pc = "returned"
    /\ \E i \in FailedRows : i < Len(csv_rows)
    /\ Len(file_rows) > PROVIDER_LIMIT

\* C19 as stated: a record whose validation raised an exception appears in
\* the batch output with status 'Review' and a descriptive error string in
\* its conflicts list, whatever complaints are on file for it.
C19_FailedRowIsReview ==
    \A i \in FailedRows :
        i \in DOMAIN records =>
            /\ records[i].status = "Review"
            /\ records[i].conflicts = <<"Validation error: " \o INDEX_ERROR>>

\* C19: a record whose validation raised an exception appears in the batch
\* output with the error string in its conflicts list and with status
\* 'Review', or 'Flagged' when the complaints on file for it lift the
\* fallback risk of 50 above 70.
C19_FailedRowReviewOrFlagged ==
    \A i \in FailedRows :
        i \in DOMAIN records =>
            LET on_file == ComplaintsOf(csv_rows[i].NPI)
                boost == Min(8 * Len(on_file), 50)
            IN  /\ records[i].conflicts = <<"Validation error: " \o INDEX_ERROR>>
                /\ records[i].riskScore = 500 + 5 * boost
                /\ records[i].status = (IF records[i].riskScore > 700 THEN "Flagged" ELSE "Review")

\* a failed row without complaints is in the output as 'Review', and a
\* failed row with six complaints on file is in the output as 'Flagged'
C19_Witness ==
    /\ pc = "returned"
    /\ \E i \in FailedRows :
          /\ response.records[i].status = "Flagged"
          /\ response.records[i].riskScore = 740
          /\ Len(ComplaintsOf(csv_rows[i].NPI)) = 6
    /\ \E i \in FailedRows :
          /\ response.records[i].status = "Review"
          /\ ComplaintsOf(csv_rows[i].NPI) = <<>>

(***************************************************************************)
(* api/routes.py: the batch handlers served together with the complaint    *)
(* directory requests.  The handlers are coroutines of one event loop: a   *)
(* batch gives up control at `await analyze_provider(...)` and at          *)
(* `await asyncio.sleep(0.5)`, and another request runs in between.  The   *)
(* batch holds `complaints_dict = complaint_store`, the store itself.      *)
(***************************************************************************)
InFlight == pc \in {"loop", "save_provider"}

\* load_complaints_from_text(text): the directory an uploaded file holds
UploadedDirectories == {IF c = <<>> THEN <<>> ELSE [n \in {NpiA} |-> c] : c \in ComplaintsOnFile}

\* POST /upload-complaints: complaint_store.clear(); complaint_store.update(complaints_dict)
upload_complaints ==
    /\ InFlight
    /\ \E complaints_dict \in UploadedDirectories :
           /\ complaints_dict # complaint_store
           /\ complaint_store' = complaints_dict
    /\ UNCHANGED <<pc, idx, records, response, handler, file_rows, outcomes>>
    /\ UNCHANGED <<csv_row, env, nppes_result, reachability_result, record>>
    /\ UNCHANGED <<ts, cx, state, dc, ba, impact, graph_vars>>

\* DELETE /upload-complaints: complaint_store.clear()
clear_complaints ==
    /\ InFlight
    /\ complaint_store # <<>>
    /\ complaint_store' = <<>>
    /\ UNCHANGED <<pc, idx, records, response, handler, file_rows, outcomes>>
    /\ UNCHANGED <<csv_row, env, nppes_result, reachability_result, record>>
    /\ UNCHANGED <<ts, cx, state, dc, ba, impact, graph_vars>>

\* batches of at most MaxRows rows
InitRequests == InitLoop /\ Len(file_rows) <= MaxRows

NextRequests == NextLoop \/ upload_complaints \/ clear_complaints

SpecRequests == InitRequests /\ [][NextRequests]_vars

\* C21: the complaint directory is not changed while records of a batch are
\* in flight, so all records of one batch run are cross-referenced against
\* the same directory contents: two rows of one provider, which the
\* validation answers alike, come out with the same risk score, status and
\* complaint thoughts, under any interleaving with upload and clear requests.
C21_SameDirectoryForBatch ==
    \A i, j \in DOMAIN records :
        csv_rows[i].NPI = csv_rows[j].NPI =>
            /\ records[i].agentThoughts = records[j].agentThoughts
            /\ records[i].status = records[j].status
            /\ records[i].riskScore = records[j].riskScore

(***************************************************************************)
(* The frame of the stages: which field of the record state each node of   *)
(* the graph is there to fill (models.MainAgentState).                     *)
(***************************************************************************)
\* the optional field of MainAgentState a node fills; none for the communicator
OwnField(n) ==
    CASE n = "parser_agent" -> "parsed_data"
      [] n = "validation_agent" -> "validation_result"
      [] n = "fraud_agent" -> "fraud_analysis"
      [] n = "predictive_agent" -> "degradation_prediction"
      [] n = "business_agent" -> "business_impact"
      [] OTHER -> "none"

\* the nodes that finish in a step of the graph run
Finishing == IF pc = "ainvoke" /\ pc' = "ainvoke" THEN active \ active' ELSE {}

\* the fields of the record state a step changes
Written == {f \in DOMAIN state : state'[f] # state[f]}

\* the outputs of the stages
OutputFields == {OwnField(n) : n \in StageNodes} \ {"none"}

\* C22 as stated: each pipeline stage writes only its own named output field
\* of the record state and leaves every field written by an earlier stage,
\* and the provider record itself, unchanged.
C22_OwnFieldOnly ==
    [][\A n \in Finishing : Written \subseteq {OwnField(n)}]_vars

\* the part of C22 that holds: no stage changes the output field of another
\* stage, and besides its own output only the validation stage writes errors,
\* the fraud stage communication_required and the stub parser of app/graph.py
\* the provider record
C22_OtherOutputsKept ==
    [][\A n \in Finishing :
          /\ Written \cap OutputFields \subseteq {OwnField(n)}
          /\ "errors" \in Written => n = "validation_agent" /\ graph = "services.workflow"
          /\ "communication_required" \in Written => n = "fraud_agent" /\ graph = "services.workflow"
          /\ "provider_data" \in Written => n = "parser_agent" /\ graph = "app.graph"]_vars

\* C23 as stated: a geocoder error or timeout resolves to the uncertain
\* score 0.3 in s2 (an error finding that is not a failed check, s2 not below
\* 0.3) and is never treated as a hard address failure: it does not trigger
\* the joint reachability+reputation lambda penalty that an explicit 'no
\* match' triggers, so lambda is the identity penalty plus the complaint boost.
C23_GeocoderErrorNotJoint ==
    (pc = "done" /\ env.geo = "exception") =>
        /\ reachability_result.findings[1] = Finding("", "Geocoder API error")
        /\ reachability_result.s2 >= Mean(<<3>>)
        /\ record.lambda = Min(LAMBDA_CAP, nppes_result.lambda_penalty + BoostOfRecord)

\* the part of C23 that holds: the error scores 0.3 in s2 and is reported as
\* an error, not as a failed check; but with a license state that differs
\* from the CSV state it raises lambda to 0.5 exactly as 'no match' does
C23_GeocoderErrorScoresUncertain ==
    (pc = "done" /\ env.geo = "exception") =>
        /\ reachability_result.findings[1] = Finding("", "Geocoder API error")
        /\ reachability_result.s2 >= Mean(<<3>>)
        /\ ~reachability_result.geocoder_match
        /\ record.lambda = Min(LAMBDA_CAP,
                               Max(nppes_result.lambda_penalty,
                                   IF \E i \in DOMAIN ReputationOfRecord.findings : LicenseStateDiffers(ReputationOfRecord.findings[i]) THEN 50 ELSE 0)
                               + BoostOfRecord)

(***************************************************************************)
(* services/business_impact.py: compute_provider_impact.  Risk scores are  *)
(* in tenths of a point, rates in percent; dollar amounts are computed in  *)
(* hundredths of a cent and returned, after round(x, 2), in cents.         *)
(***************************************************************************)
CLAIMS_PER_ERROR_PROVIDER == 5
COST_PER_PROBLEMATIC_CLAIM == 200
MANUAL_MINUTES_PER_PROVIDER == 30
HOURLY_RATE == 30
REVIEW_TIME_REDUCTION == 50
BASELINE_DETECTION_RATE == 50
VERA_DETECTION_RATE == 80
DETECTION_IMPROVEMENT == VERA_DETECTION_RATE - BASELINE_DETECTION_RATE
HIGH_RISK_ABOVE == 700
MEDIUM_RISK_ABOVE == 350
HIGH_RISK_FRAUD_SAVING == 500
MEDIUM_RISK_FRAUD_SAVING == 100

\* hundredths of a cent in a dollar
DollarUnits == 10000

\* round(x, 2) of an amount in hundredths of a cent, in cents: the nearest
\* cent (no amount of this function lies halfway between two cents)
Round2(x) == (x + 50) \div 100

\* compute_provider_impact without the review-time reduction: the full
\* manual cost counts as saved whether or not the record is auto-approved
compute_provider_impact_full(risk_score, status, n_conflicts, is_auto_approved) ==
    LET manual_cost == (MANUAL_MINUTES_PER_PROVIDER * HOURLY_RATE * DollarUnits) \div 60
        denial_saving == IF n_conflicts > 0 THEN (DETECTION_IMPROVEMENT * CLAIMS_PER_ERROR_PROVIDER * COST_PER_PROBLEMATIC_CLAIM * DollarUnits) \div 100 ELSE 0
        fraud_saving == IF risk_score > HIGH_RISK_ABOVE THEN HIGH_RISK_FRAUD_SAVING * DollarUnits
                        ELSE IF risk_score > MEDIUM_RISK_ABOVE THEN MEDIUM_RISK_FRAUD_SAVING * DollarUnits
                        ELSE 0
    IN  [operational_saving |-> Round2(manual_cost),
         denial_prevention |-> Round2(denial_saving),
         fraud_prevention |-> Round2(fraud_saving),
         total_impact |-> Round2(manual_cost + denial_saving + fraud_saving)]

compute_provider_impact(risk_score, status, n_conflicts, is_auto_approved) ==
    LET manual_cost == (MANUAL_MINUTES_PER_PROVIDER * HOURLY_RATE * DollarUnits) \div 60
        ops_saving == IF is_auto_approved THEN manual_cost
                      ELSE (manual_cost * REVIEW_TIME_REDUCTION) \div 100
        denial_saving == IF n_conflicts > 0 THEN (DETECTION_IMPROVEMENT * CLAIMS_PER_ERROR_PROVIDER * COST_PER_PROBLEMATIC_CLAIM * DollarUnits) \div 100 ELSE 0
        fraud_saving == IF risk_score > HIGH_RISK_ABOVE THEN HIGH_RISK_FRAUD_SAVING * DollarUnits
                        ELSE IF risk_score > MEDIUM_RISK_ABOVE THEN MEDIUM_RISK_FRAUD_SAVING * DollarUnits
                        ELSE 0
        total == ops_saving + denial_saving + fraud_saving
    IN  [operational_saving |-> Round2(ops_saving),
         denial_prevention |-> Round2(denial_saving),
         fraud_prevention |-> Round2(fraud_saving),
         total_impact |-> Round2(total)]

MaxConflicts == 3

\* risk scores at and around the bucket edges, and outside 0..100
ImpactRisks == {-10, 0, 349, 350, 351, 699, 700, 701, 1000, 1200}

ImpactStatuses == {"Verified", "Review", "Flagged", "Pending"}

\* impact = compute_provider_impact(risk_score, status, n_conflicts, is_auto_approved)
ProviderImpact ==
    /\ ~impact.called
    /\ impact' = [impact EXCEPT !.called = TRUE, !.result = compute_provider_impact(impact.risk_score, impact.status, impact.n_conflicts, impact.is_auto_approved)]
    /\ PipelineUnchanged
    /\ UNCHANGED <<ts, cx, state, dc, ba, graph_vars, loop_vars>>

InitImpact ==
    /\ impact \in [called : {FALSE}, risk_score : ImpactRisks, status : ImpactStatuses, n_conflicts : -1..MaxConflicts, is_auto_approved : BOOLEAN, result : {Null}]
    /\ ts = NoCall
    /\ cx = NoCall
    /\ dc = NoCall
    /\ ba = NoCall
    /\ PipelineIdle
    /\ state = None
    /\ GraphIdle
    /\ LoopIdle

NextImpact == ProviderImpact

SpecImpact == InitImpact /\ [][NextImpact]_vars

\* C24: compute_provider_impact returns three non-negative layers with
\* total_impact equal to their sum, where the operational saving ($15) is
\* halved unless the record is auto-approved, denial_prevention ($300) is
\* non-zero only when n_conflicts >= 1, and fraud_prevention is tiered by risk
\* bucket ($500 for risk > 70, $100 for 35 < risk <= 70, otherwise 0).
C24_ThreeLayers ==
    impact.called =>
        LET r == impact.result
        IN  /\ r.operational_saving >= 0 /\ r.denial_prevention >= 0 /\ r.fraud_prevention >= 0
            /\ r.total_impact = r.operational_saving + r.denial_prevention + r.fraud_prevention
            /\ r.operational_saving = (IF impact.is_auto_approved THEN 1500 ELSE 750)
            /\ r.denial_prevention = (IF impact.n_conflicts >= 1 THEN 30000 ELSE 0)
            /\ r.fraud_prevention = (IF impact.risk_score > 700 THEN 50000
                                     ELSE IF impact.risk_score > 350 THEN 10000
                                     ELSE 0)

\* a record under review with two conflicts and risk 70.1: $7.50 + $300 + $500
C24_Witness ==
    /\ impact.called
    /\ ~impact.is_auto_approved
    /\ impact.n_conflicts = 2
    /\ impact.risk_score = 701
    /\ impact.result.total_impact = 80750

\* whether a finding with this text is among the findings
HasFinding(findings, text) == \E i \in DOMAIN findings : findings[i].text = text

\* the registry found the NPI active, with name similarity 1.0, a matching
\* specialty and the state of the row; the geocoder matched the address and
\* no complaints are on file
CleanRecord ==
    /\ pc = "done"
    /\ env.nppes = "found"
    /\ env.geo = "match"
    /\ Upper(nppes_result.nppes_data.status) = "A"
    /\ HasFinding(nppes_result.findings, "Name match")
    /\ ~HasFinding(nppes_result.findings, "Specialty partial match")
    /\ ~HasFinding(nppes_result.findings, "Specialty mismatch")
    /\ ~HasFinding(nppes_result.findings, "State mismatch")
    /\ record.complaints = <<>>

\* C25 as stated: a record that is found active in the registry with name
\* similarity 1.0, matching specialty, same state, a geocoder match and no
\* complaints ends with status 'Verified', risk_score <= 35 and an empty
\* conflicts list.
C25_CleanRecordVerified ==
    CleanRecord =>
        /\ record.status = "Verified"
        /\ record.risk_score <= 350
        /\ record.conflicts = <<>>

\* C25: such a record ends with status 'Verified' and risk_score <= 35, and
\* its conflicts list is empty unless the credential of the row and the
\* credential of the registry are both given and do not match, in which case
\* the credential mismatch is its only conflict.
C25_CleanRecordVerifiedCredential ==
    CleanRecord =>
        /\ record.status = "Verified"
        /\ record.risk_score <= 350
        /\ record.conflicts = (IF HasFinding(nppes_result.findings, "Credential mismatch")
                               THEN <<"Credential mismatch">> ELSE <<>>)

\* a clean record with matching credential, phone and billing state is
\* 'Verified' with risk 0 and no conflicts, and a clean record whose phone
\* and license state differ is 'Verified' with a risk above 25
C25_Witness ==
    /\ CleanRecord
    /\ record.status = "Verified"
    /\ record.conflicts = <<>>
    /\ record.risk_score > 250
    /\ HasFinding(reachability_result.findings, "Phone mismatch")

(***************************************************************************)
(* analyze_batch over batches whose rows differ in their conflicts: the    *)
(* descriptions are those validation_agent_node writes.                    *)
(***************************************************************************)
NPI_MISMATCH == "NPI mismatch between entry and document."
NAME_MISMATCH_045 == "Name mismatch (similarity: 0.45)"
NAME_MISMATCH_072 == "Name mismatch (similarity: 0.72)"
REGISTRY_MISMATCH == "Entry name does not match official NPI Registry record."

\* a stored final state with these conflicts
StateWith(conflicts) ==
    DictState(FraudAnalysis(IF conflicts = <<>> THEN 0 ELSE INCONSISTENT_POINTS, IF conflicts = <<>> THEN "LOW" ELSE "MEDIUM", <<>>),
              Null, [is_consistent |-> conflicts = <<>>, conflicts |-> conflicts])

PatternRowTypes ==
    {[result_state |-> JsonOf(StateWith(<<>>))],
     [result_state |-> JsonOf(StateWith(<<Conflict(NPI_MISMATCH)>>))],
     [result_state |-> JsonOf(StateWith(<<Conflict(NAME_MISMATCH_045)>>))],
     [result_state |-> StateWith(<<Conflict(NAME_MISMATCH_072)>>)],
     [result_state |-> StateWith(<<Conflict(REGISTRY_MISMATCH)>>)],
     [result_state |-> JsonOf(StateWith(<<Conflict(NPI_MISMATCH), Conflict(REGISTRY_MISMATCH)>>))]}

MaxPatternRows == 4

PatternBatches == UNION {[1..n -> PatternRowTypes] : n \in 0..MaxPatternRows}

InitPatterns ==
    /\ ba \in [called : {FALSE}, jobs_data : PatternBatches, result : {Null}]
    /\ impact = NoCall
    /\ ts = NoCall
    /\ cx = NoCall
    /\ dc = NoCall
    /\ PipelineIdle
    /\ state = None
    /\ GraphIdle
    /\ LoopIdle

SpecPatterns == InitPatterns /\ [][NextBatch]_vars

\* the descriptions of all conflicts of the batch, row by row
BatchConflicts ==
    Concat([i \in DOMAIN ba.jobs_data |->
               LET st == RowState(ba.jobs_data[i])
               IN  [k \in DOMAIN st.validation_result.conflicts |-> st.validation_result.conflicts[k].description]])

\* C26: analyze_batch returns at most 3 discrepancy patterns, each a verbatim
\* conflict description (and none twice), and no description left out of the
\* list occurs more often in the batch's conflicts than one that is listed;
\* fewer than 3 are returned only when the batch has fewer descriptions.
C26_TopThreePatterns ==
    Returned =>
        LET pats == ba.result.top_discrepancy_patterns
            all == {BatchConflicts[i] : i \in DOMAIN BatchConflicts}
            listed == {pats[i] : i \in DOMAIN pats}
        IN  /\ Len(pats) <= 3
            /\ listed \subseteq all
            /\ Cardinality(listed) = Len(pats)
            /\ Len(pats) = Min(3, Cardinality(all))
            /\ \A d \in all \ listed : \A l \in listed :
                   Occurrences(BatchConflicts, d) <= Occurrences(BatchConflicts, l)
            /\ \A i, j \in DOMAIN pats :
                   i < j => Occurrences(BatchConflicts, pats[i]) >= Occurrences(BatchConflicts, pats[j])

\* a batch with four descriptions, the most frequent of them met last: it is
\* listed first and one of the others is left out
C26_Witness ==
    /\ Returned
    /\ Cardinality({BatchConflicts[i] : i \in DOMAIN BatchConflicts}) = 4
    /\ Len(ba.result.top_discrepancy_patterns) = 3
    /\ ba.result.top_discrepancy_patterns[1] = REGISTRY_MISMATCH
    /\ BatchConflicts[1] # REGISTRY_MISMATCH
    /\ Occurrences(BatchConflicts, REGISTRY_MISMATCH) = 2

\* the name the registry answer r gives: f"{reg_first} {reg_last}".strip()
RegistryName(r) == FullName(r.data.first_name, r.data.last_name)

\* the validation result holds a registry-name conflict
HasRegistryConflict(vr) == \E i \in DOMAIN vr.conflicts : vr.conflicts[i].field = "Name (Registry)"

\* the judge ran on state with the registry answer r
JudgedWith(r) == pc = "validation_agent" /\ state' = validation_agent_node(state, r)

\* C27 as stated: whenever the entry name and the registry name of a record
\* disagree (fuzzy ratio < 0.8), the judge emits a registry-name
\* ConflictDetail whether or not a document was supplied; a disagreement
\* between two sources is never silently dropped.
C27_RegistryDisagreementReported ==
    [][\A r \in NpiResults(state.provider_data) :
          (JudgedWith(r) /\ r.valid /\ ratio(EntryName(state.provider_data), RegistryName(r)) < NAME_THRESHOLD)
              => HasRegistryConflict(state'.validation_result)]_vars

\* the part of C27 that holds: for an entry with both a first and a last
\* name the registry-name conflict is emitted exactly when the ratio is below
\* 0.8, with or without a document
C27_FullNameJudged ==
    [][\A r \in NpiResults(state.provider_data) :
          (JudgedWith(r) /\ r.valid /\ EntryName(state.provider_data) # "")
              => (HasRegistryConflict(state'.validation_result)
                     <=> ratio(EntryName(state.provider_data), RegistryName(r)) < NAME_THRESHOLD)]_vars

(***************************************************************************)
(* api/routes.py: generate_historical_data asked again after a batch run.  *)
(* The providers table then holds the records of the run, so the request   *)
(* takes the cached branch (lines 111-149).                                *)
(***************************************************************************)
\* get_all_providers(): FrontendProviderRecord(**json.loads(data)); the
\* thoughts saved as dicts come back as AgentThought objects
StoredThought(t) == [agentName |-> t.agentName, thought |-> t.thought, verdict |-> t.verdict]

get_all_providers(saved) == [i \in DOMAIN saved |-> [saved[i] EXCEPT !.agentThoughts = [k \in DOMAIN @ |-> StoredThought(@[k])]]]

\* lines 123-128: the thought texts, then the conflicts
CachedFindings(rec) ==
    [i \in DOMAIN rec.agentThoughts |-> Finding("", ThoughtText(rec.agentThoughts[i]))]
    \o [i \in DOMAIN rec.conflicts |-> Finding("", rec.conflicts[i])]

\* lines 145-149: the complaint thoughts whose text the record does not hold yet
NewThoughts(rec, thoughts) ==
    SelectSeq(thoughts, LAMBDA t : \A k \in DOMAIN rec.agentThoughts : rec.agentThoughts[k].thought # t.thought)

\* lines 119-149: what the cached branch does to one record
reapply_complaints(rec, provider_complaints) ==
    IF provider_complaints = <<>> THEN {rec}
    ELSE LET complaint_result == cross_reference_complaints(provider_complaints, CachedFindings(rec))
             boost == complaint_result.lambda_boost
             current_trust == 1000 - rec.riskScore
             risks == Round1(100000 - current_trust * (100 - boost), 100)
         IN  {[rec EXCEPT
                 !.riskScore = IF boost > 0 THEN Max(0, Min(1000, r)) ELSE @,
                 !.status = IF boost > 0 /\ Max(0, Min(1000, r)) > FLAGGED_ABOVE THEN "Flagged"
                            ELSE IF boost > 0 /\ Max(0, Min(1000, r)) > REVIEW_ABOVE THEN "Review"
                            ELSE @,
                 !.agentThoughts = @ \o NewThoughts(rec, complaint_result.thoughts)] : r \in risks}

\* POST /historical-data with a providers table that is not empty: the
\* saved records, the complaint penalties applied to them, the aggregates
CachedRequest ==
    /\ pc = "returned"
    /\ records # <<>>
    /\ LET existing_records == get_all_providers(records)
       IN  \E recs \in [DOMAIN existing_records -> UNION {reapply_complaints(existing_records[i], ComplaintsOf(existing_records[i].npi)) : i \in DOMAIN existing_records}] :
               /\ \A i \in DOMAIN recs : recs[i] \in reapply_complaints(existing_records[i], ComplaintsOf(existing_records[i].npi))
               /\ response' = [status |-> 200,
                               records |-> recs,
                               discrepancies |-> Cardinality({i \in DOMAIN recs : recs[i].status # "Verified"}),
                               roi |-> 300 * Cardinality({i \in DOMAIN recs : recs[i].status = "Verified"})]
    /\ pc' = "returned_cached"
    /\ UNCHANGED <<idx, records>>
    /\ LoopUnchanged

NextHistorical == NextLoop \/ CachedRequest

SpecHistorical == InitRequests /\ [][NextHistorical]_vars

\* C28: the complaint penalty is applied at most once to a record's risk
\* score: after a batch run, requesting the historical-data results again
\* with the stored providers and the complaint directory unchanged returns
\* the same risk score and status for every record as the first run did.
C28_PenaltyAppliedOnce ==
    pc = "returned_cached" =>
        /\ Len(response.records) = Len(records)
        /\ \A i \in DOMAIN records :
              /\ response.records[i].riskScore = records[i].riskScore
              /\ response.records[i].status = records[i].status

\* what holds instead: the second answer equals the first for the records
\* without complaints on file and for those already at risk 100
C28_SameWithoutComplaints ==
    pc = "returned_cached" =>
        \A i \in DOMAIN records :
            (ComplaintsOf(records[i].npi) = <<>> \/ records[i].riskScore = 1000) =>
                /\ response.records[i].riskScore = records[i].riskScore
                /\ response.records[i].status = records[i].status

\* C29: when the registry lookup errors (uncertain identity),
\* validate_single_provider never yields status 'Verified': for every
\* geocoder, billing, phone and complaint outcome the trust score is at most
\* 51 and the status is 'Review' or 'Flagged'.
C29_LookupErrorNeverVerified ==
    (pc = "done" /\ env.nppes = "exception") =>
        /\ record.trust_score <= 510
        /\ record.status \in {"Review", "Flagged"}
        /\ record.status # "Verified"

\* a lookup error with a geocoded address, billing found and no complaints
\* reaches the trust score 51 and is under review; one with complaints on
\* file is flagged
C29_Witness ==
    /\ pc = "done"
    /\ env.nppes = "exception"
    /\ env.geo = "match"
    /\ env.medicare = "found"
    /\ record.complaints = <<>>
    /\ record.trust_score = 510
    /\ record.status = "Review"

C29_WitnessFlagged ==
    /\ pc = "done"
    /\ env.nppes = "exception"
    /\ record.complaints # <<>>
    /\ record.status = "Flagged"

(***************************************************************************)
(* main.py: GET /status/{job_id} on the job of run_validation_workflow.    *)
(***************************************************************************)

\* get_job_status for a job_id that is in job_store: the status and the
\* figures of analysis_result that are read from the stored state
get_job_status(job_data) ==
    IF isinstance(job_data, "dict")
    THEN [status |-> "processing"]
    ELSE IF isinstance(job_data, "MainAgentState")
    THEN LET final_state == job_data
             fraud == final_state.fraud_analysis
             business == final_state.business_impact
         IN  [status |-> "completed",
              analysis_result |->
                  [roi |-> IF business # Null THEN business.estimated_savings ELSE 0,
                   fraudRiskScore |-> IF fraud # Null THEN fraud.risk_score ELSE 0,
                   providersProcessed |-> 1,
                   discrepanciesFound |-> IF fraud # Null THEN Len(fraud.flagged_patterns) ELSE 0]]
    ELSE [status |-> "unknown"]

\* C30: every ingested job eventually leaves the 'processing' status: once
\* run_validation_workflow has finished for a job, whether the graph returned
\* normally or raised, get_job_status reports that job as completed and never
\* as 'processing' again.
C30_FinishedJobCompleted ==
    pc \in {"completed", "failed"} => get_job_status(job_store).status = "completed"

\* what holds: a job whose graph raised is reported as completed, with the
\* figures of an empty state; a job whose graph returned normally keeps the
\* status 'processing' for good
C30_FailedJobCompleted ==
    /\ pc = "failed" =>
          get_job_status(job_store) = [status |-> "completed", analysis_result |-> [roi |-> 0, fraudRiskScore |-> 0, providersProcessed |-> 1, discrepanciesFound |-> 0]]
    /\ pc = "completed" => get_job_status(job_store).status = "processing"
    /\ pc = "ainvoke" => get_job_status(job_store).status = "processing"

====
